---- MODULE Spec2Model ----
(***************************************************************************)
(* The workload runner of defio (src/defio/workload/runner.py) as a state  *)
(* machine: per user one producer task and one executor task, one shared   *)
(* reporter task, all children of one asyncio TaskGroup.                   *)
(*                                                                         *)
(* Scheduling is asyncio's: one task runs at a time and keeps running      *)
(* until it awaits something that is not ready.  `running` names the task  *)
(* that is in the middle of such a synchronous stretch; every other task   *)
(* and the clock wait for it.  Calls into the client and the reporter are  *)
(* suspension points whose outcome (return or raise) the environment       *)
(* chooses.                                                                *)
(*                                                                         *)
(* Time is one discrete clock `now`, read by get_current_time and by       *)
(* get_event_loop_time alike; the clock reads of one synchronous stretch   *)
(* see the same instant.                                                   *)
(*                                                                         *)
(* The parts of the library that are used outside a run each have a small  *)
(* specification of their own, with the runner idle and the call in        *)
(* `call`: Repeat.time_until_next (ScheduleSpec), Workload.__iter__        *)
(* (WorkloadSpec), Workload.combine (CombineSpec), QueryGenerator          *)
(* (GeneratorSpec), RandomSqlGenerator with its samplers (SqlgenSpec), the *)
(* sampler configs (ConfigSpec) and FileQueryReporter (FileSpec).          *)
(***************************************************************************)
EXTENDS Integers, Sequences, FiniteSets, TLC

\* ------------------------------------------------------------------ bounds
\* Capacity of a user's scheduled queue.  runner.py:18 sets 10; the model
\* keeps the mechanism and scales the number.
MAX_SCHEDULED_QUEUE_SIZE == 1
\* Largest number of queries over all sources of a workload.
MaxQueries == 2
\* Last instant of the clock; the run starts at instant 0.
MaxTime == 2
\* Largest number of executions one user's executor starts.
MaxExec == 2

\* Largest interval of a Repeat whose time_until_next is evaluated alone.
MaxInterval == 3
\* Last instant of the clock in the evaluations of the library outside a run.
MaxClock == 3

UserIds == {1, 2}

Min(a, b) == IF a <= b THEN a ELSE b

\* ---------------------------------------------------------------- schedules
Once(at) ==
    [kind |-> "Once", at |-> at, interval |-> 0, start_time |-> at, end_time |-> at]

Repeat(interval, start_time, end_time) ==
    [kind |-> "Repeat", at |-> start_time, interval |-> interval,
     start_time |-> start_time, end_time |-> end_time]

\* Repeat.starting_now(interval=..., num_repeat=...) called at instant t.
RepeatStartingNow(t, interval, num_repeat) ==
    Repeat(interval, t, t + num_repeat * interval)

\* A variant of RepeatTimeUntilNext without the outer `% interval` of line 87.
TimeUntilNextNoWrap(s, t) ==
    IF t <= s.start_time THEN s.start_time - t
    ELSE IF t > s.end_time THEN s.end_time - t
    ELSE LET elapsed_time == t - s.start_time
             time_since_last_event == elapsed_time % s.interval
             time_until_next_event == s.interval - time_since_last_event
         IN  Min(time_until_next_event, s.end_time - t)

RepeatTimeUntilNext(s, t) ==
    IF t <= s.start_time THEN s.start_time - t
    ELSE IF t > s.end_time THEN s.end_time - t
    ELSE LET elapsed_time == t - s.start_time
             time_since_last_event == elapsed_time % s.interval
             time_until_next_event ==
                 (s.interval - time_since_last_event) % s.interval
         IN  Min(time_until_next_event, s.end_time - t)

OnceTimeUntilNext(s, t) == s.at - t

\* Schedule.time_until_next() when get_current_time() returns t.
TimeUntilNext(s, t) ==
    IF s.kind = "Once" THEN OnceTimeUntilNext(s, t) ELSE RepeatTimeUntilNext(s, t)

\* The schedules a source may hold: Once with a target time before the run
\* starts, and a Repeat built by starting_now one instant before the run
\* starts, with one repetition two instants apart.
OnceTimes == {-2, -1}
QueryPool ==
    {Once(a) : a \in OnceTimes} \cup {RepeatStartingNow(-1, 2, 1)}

SeqsUpTo(S, n) == UNION {[1..k -> S] : k \in 0..n}

\* ------------------------------------------------------------------- state
VARIABLES
    now,         \* the clock
    users,       \* the users of the workload
    src,         \* src[u]: the user's query source, a sequence of schedules
    ppc,         \* producer: "start" "run" "put" "done" "failed" "cancelled"
    nextIdx,     \* producer: index of the next query of the source
    pitem,       \* producer: the item its blocked put holds
    sq,          \* sq[u]: the scheduled priority queue, a set of items
    epc,         \* executor: "get" "sleep" "connect" "execute" "close"
                 \*   "cclose" "reput" "done" "failed" "cancelled"
    cur,         \* executor: the item being executed
    results,     \* executor: results is not None
    error,       \* executor: error is not None
    eitem,       \* executor: the item its blocked re-enqueue holds
    conn,        \* executor: its connection: "none" "open" "closed" (close()
                 \*   was called), or "misused" "leaked" if handled wrongly
    cq,          \* the completed queue, a sequence of reports and DONE
    rpc,         \* reporter worker: "get" "report" "donecall" "returned"
                 \*   "hdrain" "hreport" "hdone" "cancelled" "failed"
    numDone,     \* reporter worker: num_executor_workers_done
    reported,    \* reported[u]: the reports passed to reporter.report
    doneCalls,   \* number of calls of reporter.done
    running,     \* the task in a synchronous stretch, or NoTask
    aborting,    \* TaskGroup._aborting
    cancelReq,   \* a CancelledError is to be thrown into the reporter worker
    execCount,   \* execCount[u][i]: client.connect calls for query i of u
    reportsPut,  \* reportsPut[u]: reports put on the completed queue
    finished,    \* finished[u]: executions whose client calls have ended
    snap,        \* reports in the completed queue when the group aborted
    lateReport,  \* a reporter.report call started after reporter.done
    call         \* a call of the library outside a run: [op, in, out]

vars == <<now, users, src, ppc, nextIdx, pitem, sq, epc, cur,
          results, error, eitem, conn, cq, rpc, numDone, reported, doneCalls,
          running, aborting, cancelReq, execCount, reportsPut, finished,
          snap, lateReport, call>>

\* Everything but `call`: the state of a run.
runvars == <<now, users, src, ppc, nextIdx, pitem, sq, epc, cur,
             results, error, eitem, conn, cq, rpc, numDone, reported, doneCalls,
             running, aborting, cancelReq, execCount, reportsPut, finished,
             snap, lateReport>>

wvars == <<users, src, call>>
pvars == <<ppc, nextIdx, pitem>>
evars == <<epc, cur, results, error, eitem, conn>>
rvars == <<rpc, numDone, reported, doneCalls, lateReport>>
gvars == <<aborting, cancelReq, snap>>
hvars == <<execCount, reportsPut, finished>>

NoTask == <<"none", 0>>
Producer(u) == <<"producer", u>>
Executor(u) == <<"executor", u>>
Reporter == <<"reporter", 0>>

Inf == MaxTime + 1
NoItem == [idx |-> 0, key |-> 0]
DoneItem == [idx |-> 0, key |-> Inf]
DoneSignal == [kind |-> "DONE", user |-> 0, idx |-> 0, n |-> 0, error |-> FALSE]

QueueFull(u) == Cardinality(sq[u]) >= MAX_SCHEDULED_QUEUE_SIZE

\* The sources of a workload of several users.
ConcurrentSources == {<<>>, <<Once(-1)>>}

\* No user, one user with up to MaxQueries queries, or every user of UserIds
\* with one of ConcurrentSources each.
Workloads ==
    {<<>>} \cup [{1} -> SeqsUpTo(QueryPool, MaxQueries)]
           \cup [UserIds -> ConcurrentSources]

\* The state in which run_workload starts on workload w.
Constructed(w) ==
    /\ now = 0
    /\ users = DOMAIN w
    /\ src = [u \in UserIds |-> IF u \in DOMAIN w THEN w[u] ELSE <<>>]
    /\ ppc = [u \in UserIds |-> IF u \in users THEN "start" ELSE "absent"]
    /\ nextIdx = [u \in UserIds |-> 1]
    /\ pitem = [u \in UserIds |-> NoItem]
    /\ sq = [u \in UserIds |-> {}]
    /\ epc = [u \in UserIds |-> IF u \in users THEN "get" ELSE "absent"]
    /\ cur = [u \in UserIds |-> NoItem]
    /\ results = [u \in UserIds |-> FALSE]
    /\ error = [u \in UserIds |-> FALSE]
    /\ eitem = [u \in UserIds |-> NoItem]
    /\ conn = [u \in UserIds |-> "none"]
    /\ cq = <<>>
    /\ rpc = "get"
    /\ numDone = 0
    /\ reported = [u \in UserIds |-> <<>>]
    /\ doneCalls = 0
    /\ running = NoTask
    /\ aborting = FALSE
    /\ cancelReq = FALSE
    /\ execCount = [u \in UserIds |-> [i \in 1..Len(src[u]) |-> 0]]
    /\ reportsPut = [u \in UserIds |-> 0]
    /\ finished = [u \in UserIds |-> 0]
    /\ snap = {}
    /\ lateReport = FALSE

NoCall == [op |-> "none", in |-> <<>>, out |-> <<>>]

Init ==
    /\ call = NoCall
    /\ \E w \in Workloads : Constructed(w)

\* ---------------------------------------------------------------- producer
\* _process_single_query up to its put: the prioritized item of query i.
ProcessSingleQuery(u, i) ==
    [idx |-> i, key |-> now + TimeUntilNext(src[u][i], now)]

\* A variant of ProducerPut for a queue without maxsize: the put never waits.
PutWithoutWaiting(u, item) ==
    /\ sq' = [sq EXCEPT ![u] = @ \cup {item}]
    /\ pitem' = [pitem EXCEPT ![u] = NoItem]
    /\ IF item = DoneItem
       THEN ppc' = [ppc EXCEPT ![u] = "done"] /\ running' = NoTask
       ELSE ppc' = [ppc EXCEPT ![u] = "run"] /\ running' = Producer(u)

\* `await scheduled_queue.put(item)` by the producer: put and go on, or block.
ProducerPut(u, item) ==
    IF QueueFull(u)
    THEN /\ ppc' = [ppc EXCEPT ![u] = "put"]
         /\ pitem' = [pitem EXCEPT ![u] = item]
         /\ running' = NoTask
         /\ UNCHANGED sq
    ELSE /\ sq' = [sq EXCEPT ![u] = @ \cup {item}]
         /\ pitem' = [pitem EXCEPT ![u] = NoItem]
         /\ IF item = DoneItem
            THEN ppc' = [ppc EXCEPT ![u] = "done"] /\ running' = NoTask
            ELSE ppc' = [ppc EXCEPT ![u] = "run"] /\ running' = Producer(u)

\* One iteration of `for query in query_source`, with the put of line 87, or
\* the DONE put of line 111 after the last one.
ProducerNext(u) ==
    /\ IF nextIdx[u] <= Len(src[u])
       THEN /\ ProducerPut(u, ProcessSingleQuery(u, nextIdx[u]))
            /\ nextIdx' = [nextIdx EXCEPT ![u] = @ + 1]
       ELSE /\ ProducerPut(u, DoneItem)
            /\ UNCHANGED nextIdx
    /\ UNCHANGED <<now, wvars, evars, cq, rvars, gvars, hvars>>

\* The query source raises while the producer iterates it.
SourceRaises(u) ==
    /\ ppc' = [ppc EXCEPT ![u] = "failed"]
    /\ running' = NoTask
    /\ UNCHANGED <<now, wvars, nextIdx, pitem, sq, evars, cq, rvars, gvars, hvars>>

ProducerStep(u) ==
    /\ u \in users
    /\ \/ ppc[u] = "start" /\ running = NoTask
       \/ ppc[u] = "run" /\ running = Producer(u)
    /\ \/ ProducerNext(u)
       \/ SourceRaises(u)

\* The producer's blocked put finds room.
ProducerResume(u) ==
    /\ u \in users
    /\ ppc[u] = "put"
    /\ running = NoTask
    /\ ~QueueFull(u)
    /\ ProducerPut(u, pitem[u])
    /\ UNCHANGED <<now, wvars, nextIdx, evars, cq, rvars, gvars, hvars>>

\* ---------------------------------------------------------------- executor
MinKey(u) == CHOOSE k \in {it.key : it \in sq[u]} : \A it \in sq[u] : k <= it.key

\* What `await scheduled_queue.get()` may return: an item of least priority.
GetCandidates(u) == {it \in sq[u] : it.key = MinKey(u)}

Started(u) ==
    LET RECURSIVE Sum(_)
        Sum(S) == IF S = {} THEN 0
                  ELSE LET i == CHOOSE x \in S : TRUE
                       IN  execCount[u][i] + Sum(S \ {i})
    IN  Sum(DOMAIN execCount[u])

\* The executor reaches `await client.connect(...)` for its current item.
CallConnect(u, item) ==
    /\ epc' = [epc EXCEPT ![u] = "connect"]
    /\ execCount' = [execCount EXCEPT ![u][item.idx] = @ + 1]

\* A variant of ExecutorGet with one global execution slot: an executor takes
\* its next item only while no other user's execution is in flight.
GetOneAtATime(u) ==
    /\ u \in users
    /\ epc[u] = "get"
    /\ running \in {NoTask, Executor(u)}
    /\ sq[u] # {}
    /\ \A v \in users \ {u} : epc[v] \notin {"connect", "execute", "close"}
    /\ \E item \in GetCandidates(u) :
         /\ sq' = [sq EXCEPT ![u] = @ \ {item}]
         /\ IF item = DoneItem
            THEN /\ cq' = Append(cq, DoneSignal)
                 /\ epc' = [epc EXCEPT ![u] = "done"]
                 /\ UNCHANGED <<cur, results, error, execCount>>
            ELSE /\ Started(u) < MaxExec
                 /\ cur' = [cur EXCEPT ![u] = item]
                 /\ results' = [results EXCEPT ![u] = FALSE]
                 /\ error' = [error EXCEPT ![u] = FALSE]
                 /\ IF now < item.key
                    THEN epc' = [epc EXCEPT ![u] = "sleep"] /\ UNCHANGED execCount
                    ELSE CallConnect(u, item)
                 /\ UNCHANGED cq
    /\ running' = NoTask
    /\ UNCHANGED <<now, wvars, pvars, eitem, conn, rvars, gvars, reportsPut, finished>>

\* scheduled_queue.get() returns; the DONE branch, or lines 137-147.
ExecutorGet(u) ==
    /\ u \in users
    /\ epc[u] = "get"
    /\ running \in {NoTask, Executor(u)}
    /\ sq[u] # {}
    /\ \E item \in GetCandidates(u) :
         /\ sq' = [sq EXCEPT ![u] = @ \ {item}]
         /\ IF item = DoneItem
            THEN /\ cq' = Append(cq, DoneSignal)
                 /\ epc' = [epc EXCEPT ![u] = "done"]
                 /\ UNCHANGED <<cur, results, error, execCount>>
            ELSE /\ Started(u) < MaxExec
                 /\ cur' = [cur EXCEPT ![u] = item]
                 /\ results' = [results EXCEPT ![u] = FALSE]
                 /\ error' = [error EXCEPT ![u] = FALSE]
                 /\ IF now < item.key
                    THEN epc' = [epc EXCEPT ![u] = "sleep"] /\ UNCHANGED execCount
                    ELSE CallConnect(u, item)
                 /\ UNCHANGED cq
    /\ running' = NoTask
    /\ UNCHANGED <<now, wvars, pvars, eitem, conn, rvars, gvars, reportsPut, finished>>

\* A variant of ExecutorWake whose sleep may return before the scheduled time.
WakeEarly(u) ==
    /\ u \in users
    /\ epc[u] = "sleep"
    /\ running = NoTask
    /\ CallConnect(u, cur[u])
    /\ UNCHANGED <<now, wvars, pvars, sq, cur, results, error, eitem, conn, cq,
                   rvars, running, gvars, reportsPut, finished>>

\* asyncio.sleep(scheduled_internal_time - current_event_loop_time) returns.
ExecutorWake(u) ==
    /\ u \in users
    /\ epc[u] = "sleep"
    /\ running = NoTask
    /\ now >= cur[u].key
    /\ CallConnect(u, cur[u])
    /\ UNCHANGED <<now, wvars, pvars, sq, cur, results, error, eitem, conn, cq,
                   rvars, running, gvars, reportsPut, finished>>

QueryReport(u, res, err) ==
    [kind |-> "REPORT", user |-> u, idx |-> cur[u].idx,
     n |-> reportsPut[u] + 1, error |-> err]

\* The re-schedule test of lines 170-173.
ShouldReschedule(s, t) == s.kind = "Repeat" /\ TimeUntilNext(s, t) >= 0

\* client.connect returned a connection and `async with` entered it.
AcquireConnection(u) ==
    conn' = [conn EXCEPT ![u] = IF @ = "none" THEN "open" ELSE "misused"]

\* AsyncConnection.__aexit__ calls close().
CloseConnection(u) ==
    conn' = [conn EXCEPT ![u] = IF @ = "open" THEN "closed" ELSE "misused"]

\* The executor is past the `async with` statement and drops the connection.
LeaveConnection(u) ==
    conn' = [conn EXCEPT ![u] = IF @ = "open" THEN "leaked" ELSE "none"]

\* Lines 158-176 with results/error as given: the report is created (its
\* __attrs_post_init__ asserts exactly one of results and error), put on the
\* completed queue, and the query is re-enqueued if its schedule says so.
ExecutorFinish(u, res, err) ==
    /\ finished' = [finished EXCEPT ![u] = @ + 1]
    /\ results' = [results EXCEPT ![u] = FALSE]
    /\ error' = [error EXCEPT ![u] = FALSE]
    /\ cur' = [cur EXCEPT ![u] = NoItem]
    /\ LeaveConnection(u)
    /\ IF res = err
       THEN /\ epc' = [epc EXCEPT ![u] = "failed"]
            /\ running' = NoTask
            /\ UNCHANGED <<cq, reportsPut, sq, eitem>>
       ELSE /\ cq' = Append(cq, QueryReport(u, res, err))
            /\ reportsPut' = [reportsPut EXCEPT ![u] = @ + 1]
            /\ IF ShouldReschedule(src[u][cur[u].idx], now)
               THEN IF QueueFull(u)
                    THEN \* Blocked in put.  Only this executor takes items out
                         \* of sq[u], so the put never finds room.
                         /\ epc' = [epc EXCEPT ![u] = "reput"]
                         /\ eitem' = [eitem EXCEPT ![u] = ProcessSingleQuery(u, cur[u].idx)]
                         /\ running' = NoTask
                         /\ UNCHANGED sq
                    ELSE /\ sq' = [sq EXCEPT ![u] = @ \cup {ProcessSingleQuery(u, cur[u].idx)}]
                         /\ epc' = [epc EXCEPT ![u] = "get"]
                         /\ running' = Executor(u)
                         /\ UNCHANGED eitem
               ELSE /\ epc' = [epc EXCEPT ![u] = "get"]
                    /\ running' = IF sq[u] = {} THEN NoTask ELSE Executor(u)
                    /\ UNCHANGED <<sq, eitem>>

\* A variant of ClientConnect that does not wait for the execution: the
\* executor goes back to the scheduled queue while the query is in flight.
ConnectWithoutWaiting(u) ==
    /\ u \in users
    /\ epc[u] = "connect"
    /\ running = NoTask
    /\ epc' = [epc EXCEPT ![u] = "get"]
    /\ UNCHANGED <<now, wvars, pvars, sq, cur, results, error, eitem, conn, cq,
                   rvars, running, gvars, hvars>>

\* client.connect(...) returns a connection or raises.
ClientConnect(u) ==
    /\ u \in users
    /\ epc[u] = "connect"
    /\ running = NoTask
    /\ \/ /\ epc' = [epc EXCEPT ![u] = "execute"]
          /\ AcquireConnection(u)
          /\ UNCHANGED <<cur, results, error, eitem, sq, cq, running, reportsPut, finished>>
       \/ ExecutorFinish(u, FALSE, TRUE)
    /\ UNCHANGED <<now, wvars, pvars, rvars, gvars, execCount>>

\* The rows of aconn.execute(sql) are drained, or execute raises; either way
\* __aexit__ calls close() and the executor is suspended in it.
ClientExecute(u) ==
    /\ u \in users
    /\ epc[u] = "execute"
    /\ running = NoTask
    /\ epc' = [epc EXCEPT ![u] = "close"]
    /\ CloseConnection(u)
    /\ \/ results' = [results EXCEPT ![u] = TRUE] /\ UNCHANGED error
       \/ error' = [error EXCEPT ![u] = TRUE] /\ UNCHANGED results
    /\ UNCHANGED <<now, wvars, pvars, sq, cur, eitem, cq, rvars, running, gvars, hvars>>

\* AsyncConnection.__aexit__: close() returns or raises; then lines 154-176.
ClientClose(u) ==
    /\ u \in users
    /\ epc[u] = "close"
    /\ running = NoTask
    /\ \/ ExecutorFinish(u, results[u], error[u])
       \/ ExecutorFinish(u, results[u], TRUE)
    /\ UNCHANGED <<now, wvars, pvars, rvars, gvars, execCount>>

\* ---------------------------------------------------------------- reporter
\* reporter.report(query_report) is called.
CallReport(r) ==
    /\ reported' = [reported EXCEPT ![r.user] = Append(@, [idx |-> r.idx, n |-> r.n])]
    /\ lateReport' = (lateReport \/ doneCalls > 0)

\* completed_queue.get() returns; lines 189-201.
ReporterGet ==
    /\ rpc = "get"
    /\ running \in {NoTask, Reporter}
    /\ ~cancelReq
    /\ cq # <<>>
    /\ cq' = Tail(cq)
    /\ IF Head(cq).kind = "REPORT"
       THEN /\ CallReport(Head(cq))
            /\ rpc' = "report"
            /\ running' = NoTask
            /\ UNCHANGED <<numDone, doneCalls>>
       ELSE /\ numDone' = numDone + 1
            /\ IF numDone + 1 = Cardinality(users)
               THEN /\ doneCalls' = doneCalls + 1
                    /\ rpc' = "donecall"
                    /\ running' = NoTask
               ELSE /\ rpc' = "get"
                    /\ running' = IF Tail(cq) = <<>> THEN NoTask ELSE Reporter
                    /\ UNCHANGED doneCalls
            /\ UNCHANGED <<reported, lateReport>>
    /\ UNCHANGED <<now, wvars, pvars, sq, evars, gvars, hvars>>

\* reporter.report returns or raises at line 191.
ReporterReportReturns ==
    /\ rpc = "report"
    /\ running = NoTask
    /\ ~cancelReq
    /\ \/ /\ rpc' = "get"
          /\ running' = IF cq = <<>> THEN NoTask ELSE Reporter
       \/ /\ rpc' = "failed"
          /\ UNCHANGED running
    /\ UNCHANGED <<now, wvars, pvars, sq, evars, cq, numDone, reported, doneCalls,
                   lateReport, gvars, hvars>>

\* reporter.done returns at line 200; the worker returns.
ReporterDoneReturns ==
    /\ rpc = "donecall"
    /\ running = NoTask
    /\ ~cancelReq
    /\ rpc' = "returned"
    /\ UNCHANGED <<now, wvars, pvars, sq, evars, cq, numDone, reported, doneCalls,
                   lateReport, running, gvars, hvars>>

\* A variant of ReporterDrain that calls reporter.done() without flushing the
\* completed queue first.
DrainWithoutFlush ==
    /\ rpc = "hdrain"
    /\ running = Reporter
    /\ doneCalls' = doneCalls + 1
    /\ rpc' = "hdone"
    /\ running' = NoTask
    /\ UNCHANGED <<now, wvars, pvars, sq, evars, cq, numDone, reported, lateReport,
                   gvars, hvars>>

\* One round of the loop of lines 209-216, or line 218 after it.
ReporterDrain ==
    /\ rpc = "hdrain"
    /\ running = Reporter
    /\ IF cq = <<>>
       THEN /\ doneCalls' = doneCalls + 1
            /\ rpc' = "hdone"
            /\ running' = NoTask
            /\ UNCHANGED <<cq, reported, lateReport>>
       ELSE /\ cq' = Tail(cq)
            /\ IF Head(cq).kind = "REPORT"
               THEN /\ CallReport(Head(cq))
                    /\ rpc' = "hreport"
                    /\ running' = NoTask
               ELSE UNCHANGED <<rpc, running, reported, lateReport>>
            /\ UNCHANGED doneCalls
    /\ UNCHANGED <<now, wvars, pvars, sq, evars, numDone, gvars, hvars>>

\* reporter.report returns or raises at line 216.
ReporterDrainReportReturns ==
    /\ rpc = "hreport"
    /\ running = NoTask
    /\ \/ rpc' = "hdrain" /\ running' = Reporter
       \/ rpc' = "failed" /\ UNCHANGED running
    /\ UNCHANGED <<now, wvars, pvars, sq, evars, cq, numDone, reported, doneCalls,
                   lateReport, gvars, hvars>>

\* reporter.done returns at line 218; line 219 re-raises the CancelledError.
ReporterDrainDoneReturns ==
    /\ rpc = "hdone"
    /\ running = NoTask
    /\ rpc' = "cancelled"
    /\ UNCHANGED <<now, wvars, pvars, sq, evars, cq, numDone, reported, doneCalls,
                   lateReport, running, gvars, hvars>>

\* --------------------------------------------------------------- TaskGroup
ProducerEnded(u) == ppc[u] \in {"done", "failed", "cancelled"}
ExecutorEnded(u) == epc[u] \in {"done", "failed", "cancelled"}
ReporterEnded == rpc \in {"returned", "failed", "cancelled"}

AllEnded == ReporterEnded /\ \A u \in users : ProducerEnded(u) /\ ExecutorEnded(u)

SomeTaskFailed ==
    \/ rpc = "failed"
    \/ \E u \in users : ppc[u] = "failed" \/ epc[u] = "failed"

\* Every task has run its first step: the loop runs the ready tasks in the
\* order they were created, before any callback scheduled later.
AllStarted == \A u \in users : ppc[u] # "start"

ReportIds(q) == {<<q[i].user, q[i].n>> : i \in {j \in 1..Len(q) : q[j].kind = "REPORT"}}

\* A variant of Abort for an executor that holds its connection without
\* `async with`: the cancellation ends it where it is, with no close().
AbortWithoutClose ==
    /\ ~aborting
    /\ running = NoTask
    /\ AllStarted
    /\ aborting' = TRUE
    /\ cancelReq' = ~ReporterEnded
    /\ snap' = ReportIds(cq)
    /\ ppc' = [u \in UserIds |->
                 IF u \in users /\ ~ProducerEnded(u) THEN "cancelled" ELSE ppc[u]]
    /\ epc' = [u \in UserIds |->
                 IF u \in users /\ ~ExecutorEnded(u)
                 THEN "cancelled"
                 ELSE epc[u]]
    /\ UNCHANGED <<now, wvars, nextIdx, pitem, sq, cur, results, error, eitem, conn, cq,
                   rvars, running, hvars>>

\* TaskGroup._abort(): every task that is not done gets cancel(), and the
\* CancelledError is thrown into it where it is suspended.  A producer and an
\* executor end there, except that inside the `async with` body __aexit__
\* awaits close() first.  The reporter worker's handler is ReporterCancelled.
Abort ==
    /\ ~aborting
    /\ running = NoTask
    /\ AllStarted
    /\ aborting' = TRUE
    /\ cancelReq' = ~ReporterEnded
    /\ snap' = ReportIds(cq)
    /\ ppc' = [u \in UserIds |->
                 IF u \in users /\ ~ProducerEnded(u) THEN "cancelled" ELSE ppc[u]]
    /\ epc' = [u \in UserIds |->
                 IF u \in users /\ ~ExecutorEnded(u)
                 THEN (IF epc[u] = "execute" THEN "cclose" ELSE "cancelled")
                 ELSE epc[u]]
    /\ conn' = [u \in UserIds |->
                  IF u \in users /\ epc[u] = "execute"
                  THEN (IF conn[u] = "open" THEN "closed" ELSE "misused")
                  ELSE conn[u]]
    /\ UNCHANGED <<now, wvars, nextIdx, pitem, sq, cur, results, error, eitem, cq,
                   rvars, running, hvars>>

\* The task that awaits run_workload is cancelled while the group runs.
ExternalCancel == ~AllEnded /\ Abort

\* TaskGroup._on_task_done of a task that ended with an exception.
OnTaskFailed == SomeTaskFailed /\ Abort

\* close() during the unwinding returns, and the CancelledError goes on; or
\* it raises, and line 154 catches what it raised.
ClientCloseCancelled(u) ==
    /\ u \in users
    /\ epc[u] = "cclose"
    /\ running = NoTask
    /\ \/ /\ epc' = [epc EXCEPT ![u] = "cancelled"]
          /\ UNCHANGED <<cur, results, error, eitem, conn, sq, cq, running,
                         reportsPut, finished>>
       \/ ExecutorFinish(u, FALSE, TRUE)
    /\ UNCHANGED <<now, wvars, pvars, rvars, gvars, execCount>>

\* CancelledError is thrown into the reporter worker: line 206.
ReporterCancelled ==
    /\ cancelReq
    /\ running = NoTask
    /\ cancelReq' = FALSE
    /\ rpc' = "hdrain"
    /\ running' = Reporter
    /\ UNCHANGED <<now, wvars, pvars, sq, evars, cq, numDone, reported, doneCalls,
                   lateReport, aborting, snap, hvars>>

Tick ==
    /\ running = NoTask
    /\ AllStarted
    /\ now < MaxTime
    /\ ~AllEnded
    /\ now' = now + 1
    /\ UNCHANGED <<wvars, pvars, sq, evars, cq, rvars, running, gvars, hvars>>

Next ==
    \/ \E u \in UserIds : ProducerStep(u)
    \/ \E u \in UserIds : ProducerResume(u)
    \/ \E u \in UserIds : ExecutorGet(u)
    \/ \E u \in UserIds : ExecutorWake(u)
    \/ \E u \in UserIds : ClientConnect(u)
    \/ \E u \in UserIds : ClientExecute(u)
    \/ \E u \in UserIds : ClientClose(u)
    \/ ReporterGet
    \/ ReporterReportReturns
    \/ ReporterDoneReturns
    \/ ReporterDrain
    \/ ReporterDrainReportReturns
    \/ ReporterDrainDoneReturns
    \/ ExternalCancel
    \/ OnTaskFailed
    \/ \E u \in UserIds : ClientCloseCancelled(u)
    \/ ReporterCancelled
    \/ Tick

Spec == Init /\ [][Next]_vars

\* -------------------------------------------------------------- properties
\* The steps of the tasks themselves: Next without the clock and without a
\* cancellation from outside.
TaskNext ==
    \/ \E u \in UserIds : ProducerStep(u)
    \/ \E u \in UserIds : ProducerResume(u)
    \/ \E u \in UserIds : ExecutorGet(u)
    \/ \E u \in UserIds : ExecutorWake(u)
    \/ \E u \in UserIds : ClientConnect(u)
    \/ \E u \in UserIds : ClientExecute(u)
    \/ \E u \in UserIds : ClientClose(u)
    \/ ReporterGet
    \/ ReporterReportReturns
    \/ ReporterDoneReturns
    \/ ReporterDrain
    \/ ReporterDrainReportReturns
    \/ ReporterDrainDoneReturns
    \/ OnTaskFailed
    \/ \E u \in UserIds : ClientCloseCancelled(u)
    \/ ReporterCancelled

\* No task can take a step now or at any later instant, although nothing was
\* cancelled, no task failed and no bound of the model stopped an executor.
Stuck ==
    /\ ~aborting
    /\ ~SomeTaskFailed
    /\ \A u \in users : epc[u] # "sleep" /\ Started(u) < MaxExec
    /\ ~ENABLED TaskNext

\* The reports passed to reporter.report so far, as (user, number) pairs.
ReportedIds ==
    UNION {{<<u, reported[u][k].n>> : k \in 1..Len(reported[u])} : u \in UserIds}

InFlight(u) == epc[u] \in {"connect", "execute", "close", "cclose"}

\* C1: a workload with at least one user, finite sources and Repeat schedules
\* with a finite end_time, run against a client whose calls return or raise,
\* ends with reporter.done() called and the reporter worker returned.  As a
\* property of finite runs: the run is never stuck before that point.
C1_RunEndsWithDone ==
    (users # {} /\ Stuck) => (rpc = "returned" /\ AllEnded /\ doneCalls >= 1)

\* C2: every execution that finishes has put exactly one report on the
\* completed queue, no report is passed to reporter.report twice, and when the
\* reporter worker returns normally reporter.report has been called once per
\* execution.
C2_OneReportPerExecution ==
    \A u \in users :
        /\ reportsPut[u] = finished[u]
        /\ \A j, k \in 1..Len(reported[u]) :
               reported[u][j].n = reported[u][k].n => j = k
        /\ rpc = "returned" => Len(reported[u]) = Started(u)

\* C3: in a run that completes normally or is cancelled at any suspension
\* point, reporter.done is called exactly once (never twice, and once when all
\* tasks have ended) and no reporter.report call starts after it.
C3_DoneExactlyOnce ==
    /\ doneCalls <= 1
    /\ ~lateReport
    /\ (AllEnded /\ ~SomeTaskFailed) => doneCalls = 1

\* C4: while an execution of a user is in flight (from the call of
\* client.connect to the end of close), every earlier execution of that user
\* has finished and its report has been put on the completed queue; while
\* none is in flight, every started execution has finished, except the one a
\* cancellation cut off.
C4_OneInFlightPerUser ==
    \A u \in users :
        IF InFlight(u)
        THEN Started(u) = finished[u] + 1 /\ reportsPut[u] = finished[u]
        ELSE \/ Started(u) = finished[u]
             \/ epc[u] = "cancelled" /\ Started(u) = finished[u] + 1

\* C4 witness: a user's executor has called client.connect for its second
\* execution.
C4_SecondExecutionInFlight ==
    \E u \in users : epc[u] = "connect" /\ Started(u) = 2 /\ reportsPut[u] = 1

\* C5: an exception raised by connect, execute or close never ends the
\* executor: it becomes the error of the execution's report, so every finished
\* execution has its report.
C5_ClientErrorsAreReported ==
    \A u \in users : epc[u] # "failed" /\ finished[u] = reportsPut[u]

C7_DoneOnceAfterFailure ==
    (AllEnded /\ (rpc = "failed" \/ \E u \in users : ppc[u] = "failed"))
        => doneCalls = 1

\* C8: every query pulled from a source is executed at least once (no run is
\* stuck, and no run ends normally, with a pulled query that was never
\* executed), and a query with a Once schedule is executed at most once.
C8_PulledQueriesExecuted ==
    \A u \in users :
        /\ \A i \in 1..Len(src[u]) :
               src[u][i].kind = "Once" => execCount[u][i] <= 1
        /\ (Stuck \/ rpc = "returned") =>
               \A i \in 1..(nextIdx[u] - 1) : execCount[u][i] >= 1

\* C9: a query scheduled with Repeat.starting_now(interval, num_repeat=N),
\* for which end_time - start_time = N * interval, is executed at most N times.
C9_RepeatBound ==
    \A u \in users : \A i \in 1..Len(src[u]) :
        src[u][i].kind = "Repeat" =>
            execCount[u][i] * src[u][i].interval
                <= src[u][i].end_time - src[u][i].start_time

\* C10: for one user whose queries all have Once schedules with target times
\* before the run starts, the reports are passed to the reporter in
\* non-decreasing order of target time.
C10_SerialOrder ==
    (users = {1} /\ \A i \in 1..Len(src[1]) :
                        src[1][i].kind = "Once" /\ src[1][i].at < 0)
        => \A j, k \in 1..Len(reported[1]) :
               j < k => src[1][reported[1][j].idx].at <= src[1][reported[1][k].idx].at

\* C11: whenever an executor is calling client.connect for an item, the
\* event-loop time is at least the item's scheduled_internal_time.
C11_NotBeforeScheduledTime ==
    \A u \in users : epc[u] = "connect" => cur[u].key <= now

\* C11 witness: an executor calls client.connect for an item that was
\* scheduled after the start of the run.
C11_FutureItemStarted ==
    \E u \in users : epc[u] = "connect" /\ cur[u].key >= 1

\* The queries of user u that are on the scheduled queue.
QueuedQueries(u) == {it.idx : it \in sq[u]} \ {0}

\* C12: a scheduled queue never holds more than its capacity; the producer
\* pulls the next query only after the previous one is on the queue, so every
\* pulled query that was never executed is on the queue, in the producer's one
\* waiting put, or in the executor's hands.
C12_Backpressure ==
    \A u \in users :
        /\ Cardinality(sq[u]) <= MAX_SCHEDULED_QUEUE_SIZE
        /\ \A i \in 1..(nextIdx[u] - 1) :
               \/ execCount[u][i] >= 1
               \/ i \in QueuedQueries(u)
               \/ i = pitem[u].idx
               \/ i = cur[u].idx
        /\ pitem[u] # NoItem => ppc[u] \in {"put", "cancelled"}

\* C12 witness: the queue is full and the producer waits with one pulled
\* query, while later queries of the source are not pulled.
C12_ProducerWaits ==
    \E u \in users :
        /\ QueueFull(u)
        /\ ppc[u] = "put"
        /\ pitem[u].idx >= 1

\* C13: while one user's execution is suspended in connect or execute, another
\* user's executor that waits at the scheduled queue with an item in it takes
\* the item as soon as the loop is idle.
C13_UsersRunConcurrently ==
    \A u, v \in users :
        (/\ u # v
         /\ epc[u] \in {"connect", "execute"}
         /\ epc[v] = "get"
         /\ sq[v] # {}
         /\ running = NoTask
         /\ Started(v) < MaxExec)
            => ENABLED ExecutorGet(v)

\* C13 witness: the executions of all users are in flight at once.
C13_AllUsersInFlight ==
    /\ Cardinality(users) = 2
    /\ \A u \in users : epc[u] \in {"connect", "execute"}

\* C14: a connection is entered only when the executor holds none, close() is
\* called on it exactly once, also when execute raises or the executor is
\* cancelled inside execute, and it is closed before the executor leaves the
\* execution or calls client.connect again.
C14_ConnectionClosedOnce ==
    \A u \in users :
        /\ conn[u] \notin {"misused", "leaked"}
        /\ conn[u] = "open" => epc[u] = "execute"
        /\ epc[u] \in {"get", "sleep", "connect", "reput", "done", "failed"}
               => conn[u] = "none"

\* C14 witness: an executor cancelled inside execute is awaiting close().
C14_ClosedOnCancel ==
    \E u \in users : epc[u] = "cclose" /\ conn[u] = "closed"

\* ------------------------------------------------- Repeat.time_until_next
\* <<interval, start_time, end_time, current time>> with interval > 0 and
\* start_time <= end_time (Repeat.__attrs_post_init__).
ScheduleArgs ==
    {<<i, st, en, t>> : i \in 1..MaxInterval, st \in 0..MaxClock,
                        en \in 0..MaxClock, t \in 0..(MaxClock + 1)}

ScheduleInit ==
    /\ Constructed(<<>>)
    /\ \E a \in {x \in ScheduleArgs : x[2] <= x[3]} :
           call = [op |-> "Repeat", in |-> a, out |-> <<>>]

\* schedule.time_until_next() is called when the clock reads call.in[4].
TimeUntilNextCall ==
    /\ call.op = "Repeat"
    /\ call' = [op |-> "time_until_next", in |-> call.in,
                out |-> <<RepeatTimeUntilNext(
                              Repeat(call.in[1], call.in[2], call.in[3]), call.in[4])>>]
    /\ UNCHANGED runvars

ScheduleSpec == ScheduleInit /\ [][TimeUntilNextCall]_vars

MaxUsers == 3
\* Largest integer label given to a user beforehand.
MaxLabel == 1

\* A label is None, an int or a str; val numbers the ints and the strs.
NoLabel == [kind |-> "none", val |-> 0]
IntLabel(n) == [kind |-> "int", val |-> n]
StrLabel(n) == [kind |-> "str", val |-> n]
Labels == {NoLabel, StrLabel(0)} \cup {IntLabel(n) : n \in 0..MaxLabel}

\* A User is a random identity and a label; equality and hash are the identity.
User(id, label) == [id |-> id, label |-> label]
relabel(user, label) == User(user.id, label)

\* The sequences over S without repetition, of length 0..n.
RECURSIVE DistinctSeqs(_, _)
DistinctSeqs(S, n) ==
    IF n = 0 THEN {<<>>}
    ELSE LET shorter == DistinctSeqs(S, n - 1)
         IN  shorter \cup UNION {{Append(q, x) : x \in S \ {q[a] : a \in DOMAIN q}}
                                    : q \in shorter}

\* _queries_by_users in the order in which the Map iterates: one entry per
\* identity.
LabelledWorkloads ==
    UNION {{[k \in DOMAIN ids |-> [user |-> User(ids[k], ls[k]), source |-> <<>>]]
              : ls \in [DOMAIN ids -> Labels]}
           : ids \in DistinctSeqs(1..MaxUsers, MaxUsers)}

user_labels(w) == {w[k].user.label : k \in DOMAIN w}

\* A variant of next_unused_int without the test `in user_labels`.
NextIntNoSkip(labels, counter) == counter

\* next_unused_int: the first value of the counter that is no user's label.
RECURSIVE next_unused_int(_, _)
next_unused_int(labels, counter) ==
    IF IntLabel(counter) \in labels
    THEN next_unused_int(labels, counter + 1)
    ELSE counter

WorkloadInit ==
    /\ Constructed(<<>>)
    /\ \E w \in LabelledWorkloads :
           call = [op |-> "Workload", in |-> w,
                   out |-> [runs |-> <<>>, k |-> 0, int_counter |-> 0, yielded |-> <<>>]]

\* iter(workload): lines 53-55 run at the first next().
IterStart ==
    /\ call.op \in {"Workload", "iterated"}
    /\ Len(call.out.runs) < 2
    /\ call' = [call EXCEPT !.op = "iter",
                            !.out = [@ EXCEPT !.k = 0, !.int_counter = 0, !.yielded = <<>>]]
    /\ UNCHANGED runvars

\* One turn of the loop of lines 61-67.
IterYield ==
    /\ call.op = "iter"
    /\ call.out.k < Len(call.in)
    /\ LET entry == call.in[call.out.k + 1]
           next_int == next_unused_int(user_labels(call.in), call.out.int_counter)
           unlabelled == entry.user.label = NoLabel
           user == IF unlabelled THEN relabel(entry.user, IntLabel(next_int))
                   ELSE entry.user
       IN  call' = [call EXCEPT
                       !.out = [@ EXCEPT
                                   !.k = @ + 1,
                                   !.int_counter = IF unlabelled THEN next_int + 1 ELSE @,
                                   !.yielded = Append(@, [user |-> user, source |-> entry.source])]]
    /\ UNCHANGED runvars

\* The loop of line 61 ends: the iteration is exhausted.
IterEnd ==
    /\ call.op = "iter"
    /\ call.out.k = Len(call.in)
    /\ call' = [call EXCEPT !.op = "iterated",
                            !.out = [@ EXCEPT !.runs = Append(@, call.out.yielded)]]
    /\ UNCHANGED runvars

WorkloadNext == IterStart \/ IterYield \/ IterEnd

WorkloadSpec == WorkloadInit /\ [][WorkloadNext]_vars

\* C16: every iteration of a Workload yields each user once, in the order of
\* the mapping; a labelled user keeps its label; the j-th unlabelled user gets
\* the j-th nonnegative integer that is no user's label, so the new labels
\* differ from one another and from the labels given beforehand; and all
\* iterations yield the same.
C16_Relabelling ==
    call.op = "iterated" =>
        LET w == call.in
            given == user_labels(w)
        IN  \A n \in DOMAIN call.out.runs :
              LET r == call.out.runs[n]
              IN  /\ r = call.out.runs[1]
                  /\ Len(r) = Len(w)
                  /\ \A k \in DOMAIN r :
                        /\ r[k].user.id = w[k].user.id
                        /\ r[k].source = w[k].source
                        /\ w[k].user.label # NoLabel => r[k].user.label = w[k].user.label
                        /\ w[k].user.label = NoLabel =>
                              /\ r[k].user.label.kind = "int"
                              /\ r[k].user.label.val >= 0
                              /\ r[k].user.label \notin given
                              /\ Cardinality({m \in 0..(r[k].user.label.val - 1) :
                                                  IntLabel(m) \notin given})
                                     = Cardinality({j \in 1..(k - 1) : w[j].user.label = NoLabel})
                              /\ \A j \in DOMAIN r :
                                    j # k /\ w[j].user.label = NoLabel
                                        => r[j].user.label # r[k].user.label

\* C16 witness: two iterations done, of a workload in which 0 is taken and two
\* users are unlabelled, the second of them yielded with a label above 1.
C16_SkippedTakenLabel ==
    /\ call.op = "iterated"
    /\ Len(call.out.runs) = 2
    /\ IntLabel(0) \in user_labels(call.in)
    /\ \E j, k \in DOMAIN call.in :
          /\ j < k
          /\ call.in[j].user.label = NoLabel
          /\ call.in[k].user.label = NoLabel
          /\ call.out.runs[2][j].user.label = IntLabel(1)
          /\ call.out.runs[2][k].user.label = IntLabel(2)

\* --------------------------------------------------------- Workload.combine
\* Most workloads given to one Workload.combine.
MaxInputs == 3

CombineUserIds == {1, 2}
\* The queries of the sources that are combined.
CombineQueries == {1, 2}

\* A query source is a tuple of queries or a chained generator of sources.
SeqSource(items) == [kind |-> "seq", items |-> items, subgenerators |-> <<>>]

\* A variant of chain with the subgenerators in the opposite order.
ChainSwapped(first, second) ==
    [kind |-> "chain", items |-> <<>>, subgenerators |-> <<second, first>>]

chain(first, second) ==
    [kind |-> "chain", items |-> <<>>, subgenerators |-> <<first, second>>]

\* list(source): a tuple yields its items, a chained generator yields from
\* each of its subgenerators in turn.
RECURSIVE Iterate(_)
Iterate(source) ==
    IF source.kind = "seq" THEN source.items
    ELSE IF source.subgenerators = <<>> THEN <<>>
    ELSE Iterate(Head(source.subgenerators)) \o
         Iterate([source EXCEPT !.subgenerators = Tail(@)])

\* The workloads that are combined: in each, every user has no label and a
\* tuple of at most one query, and the mapping iterates in order of identity.
CombineWorkloads ==
    UNION {{[k \in 1..Cardinality(U) |->
                LET id == CHOOSE i \in U : Cardinality({j \in U : j < i}) = k - 1
                IN  [user |-> User(id, NoLabel), source |-> SeqSource(qs[id])]]
              : qs \in [U -> SeqsUpTo(CombineQueries, 1)]}
           : U \in SUBSET CombineUserIds}

\* `user in queries_by_users` and queries_by_users[user], on a dict kept as
\* the sequence of its items in insertion order.
DictHas(dict, user) == \E j \in DOMAIN dict : dict[j].user.id = user.id
DictIndex(dict, user) == CHOOSE j \in DOMAIN dict : dict[j].user.id = user.id

\* Lines 109-113: one turn of the inner loop.
CombineEntry(dict, entry) ==
    IF DictHas(dict, entry.user)
    THEN [dict EXCEPT ![DictIndex(dict, entry.user)].source = chain(@, entry.source)]
    ELSE Append(dict, entry)

\* Lines 107-113, from the k-th entry of the n-th workload on.
RECURSIVE CombineFrom(_, _, _, _)
CombineFrom(dict, workloads, n, k) ==
    IF n > Len(workloads) THEN dict
    ELSE IF k > Len(workloads[n]) THEN CombineFrom(dict, workloads, n + 1, 1)
    ELSE CombineFrom(CombineEntry(dict, workloads[n][k]), workloads, n, k + 1)

\* Workload(queries_by_users): the Map iterates over the items of the dict in
\* an order of its own.
MapOrders(dict) ==
    {[k \in DOMAIN dict |-> dict[f[k]]] :
        f \in {g \in [DOMAIN dict -> DOMAIN dict] :
                 \A a, b \in DOMAIN dict : a # b => g[a] # g[b]}}

CombineInit ==
    /\ Constructed(<<>>)
    /\ \E ws \in SeqsUpTo(CombineWorkloads, MaxInputs) :
           call = [op |-> "workloads", in |-> ws, out |-> <<>>]

\* Workload.combine(workloads)
CombineCall ==
    /\ call.op = "workloads"
    /\ \E combined \in MapOrders(CombineFrom(<<>>, call.in, 1, 1)) :
           call' = [call EXCEPT !.op = "combine", !.out = combined]
    /\ UNCHANGED runvars

CombineSpec == CombineInit /\ [][CombineCall]_vars

\* What the n-th and later inputs hold for the user `id`, one after another.
RECURSIVE QueriesOf(_, _, _)
QueriesOf(workloads, id, n) ==
    IF n > Len(workloads) THEN <<>>
    ELSE LET w == workloads[n]
             mine == {k \in DOMAIN w : w[k].user.id = id}
         IN  (IF mine = {} THEN <<>> ELSE w[CHOOSE k \in mine : TRUE].source.items)
                 \o QueriesOf(workloads, id, n + 1)

Occurrences(workloads, id) ==
    {<<n, k>> \in (DOMAIN workloads) \X (1..Cardinality(CombineUserIds)) :
        k \in DOMAIN workloads[n] /\ workloads[n][k].user.id = id}

\* C17: Workload.combine(ws) has one entry per distinct user of the inputs;
\* the source of a user yields the queries of that user's sources one input
\* after another, in the order of the inputs, however many inputs there are;
\* the source of a user of one input only is that input's source itself.
C17_CombineChainsInOrder ==
    call.op = "combine" =>
        LET ws == call.in
            combined == call.out
            ids == {id \in CombineUserIds : Occurrences(ws, id) # {}}
        IN  /\ Len(combined) = Cardinality(ids)
            /\ {combined[k].user.id : k \in DOMAIN combined} = ids
            /\ \A k \in DOMAIN combined :
                  LET id == combined[k].user.id
                      occ == Occurrences(ws, id)
                  IN  /\ Iterate(combined[k].source) = QueriesOf(ws, id, 1)
                      /\ Cardinality(occ) = 1 =>
                             \A o \in occ : combined[k].source = ws[o[1]][o[2]].source

\* C17 witness: a user of all of three inputs, with different queries in the
\* first two, combined into one source next to a user of one input.
C17_ThreeSourcesChained ==
    /\ call.op = "combine"
    /\ Len(call.in) = 3
    /\ Len(call.out) = 2
    /\ \E k \in DOMAIN call.out :
          /\ Cardinality(Occurrences(call.in, call.out[k].user.id)) = 3
          /\ Iterate(call.out[k].source) = <<1, 2, 1>>
    /\ \E k \in DOMAIN call.out :
          Cardinality(Occurrences(call.in, call.out[k].user.id)) = 1

\* ---------------------------------------------------- QueryGenerator.__iter__
\* timedelta(seconds=1), in units of the clock.
OneSecond == 2
\* The SQL strings of the sources of a QueryGenerator.
SqlStrings == {1, 2}

Query(sql, schedule) == [sql |-> sql, schedule |-> schedule]

\* QueryGenerator(sql_source, fixed_time, interval); interval 0 stands for
\* None, and so does has_fixed_time = FALSE.
QueryGenerator(sql_source, has_fixed_time, fixed_time, interval) ==
    [sql_source |-> sql_source, has_fixed_time |-> has_fixed_time,
     fixed_time |-> fixed_time, interval |-> interval]

with_fixed_time(sql_source, schedule) == QueryGenerator(sql_source, TRUE, schedule, 0)
with_fixed_interval(sql_source, interval) == QueryGenerator(sql_source, FALSE, Once(0), interval)
with_fixed_rate(sql_source, queries_per_second) ==
    QueryGenerator(sql_source, FALSE, Once(0), OneSecond \div queries_per_second)

QueryGenerators ==
    LET sources == SeqsUpTo(SqlStrings, MaxQueries)
    IN  {with_fixed_time(q, Once(a)) : q \in sources, a \in OnceTimes}
            \cup {with_fixed_interval(q, i) : q \in sources, i \in 1..MaxInterval}
            \cup {with_fixed_rate(q, r) : q \in sources, r \in {r \in 1..OneSecond : OneSecond % r = 0}}

GeneratorInit ==
    /\ Constructed(<<>>)
    /\ \E g \in QueryGenerators :
           call = [op |-> "QueryGenerator", in |-> g,
                   out |-> [runs |-> <<>>, clock |-> 0, start_time |-> 0, k |-> 0,
                            yielded |-> <<>>]]

\* Time passes between the steps of the caller.
GeneratorTick ==
    /\ call.op \in {"QueryGenerator", "iter", "iterated"}
    /\ call.out.clock < MaxClock
    /\ call' = [call EXCEPT !.out = [@ EXCEPT !.clock = @ + 1]]
    /\ UNCHANGED runvars

\* The first next() of an iteration: the body runs up to its loop, and with an
\* interval it reads get_current_time() (line 176).
GeneratorStart ==
    /\ call.op \in {"QueryGenerator", "iterated"}
    /\ Len(call.out.runs) < 2
    /\ call' = [call EXCEPT
                   !.op = "iter",
                   !.out = [@ EXCEPT !.k = 0, !.yielded = <<>>,
                                     !.start_time = IF call.in.has_fixed_time THEN 0
                                                    ELSE call.out.clock]]
    /\ UNCHANGED runvars

\* Lines 170-171 and 177-178: the next query is yielded.
GeneratorYield ==
    /\ call.op = "iter"
    /\ call.out.k < Len(call.in.sql_source)
    /\ LET i == call.out.k
           sql == call.in.sql_source[i + 1]
           query == IF call.in.has_fixed_time
                    THEN Query(sql, call.in.fixed_time)
                    ELSE Query(sql, Once(call.out.start_time + i * call.in.interval))
       IN  call' = [call EXCEPT !.out = [@ EXCEPT !.k = @ + 1,
                                                  !.yielded = Append(@, query)]]
    /\ UNCHANGED runvars

\* The source is exhausted: the iteration ends.
GeneratorEnd ==
    /\ call.op = "iter"
    /\ call.out.k = Len(call.in.sql_source)
    /\ call' = [call EXCEPT !.op = "iterated",
                            !.out = [@ EXCEPT !.runs = Append(@, call.out.yielded)]]
    /\ UNCHANGED runvars

GeneratorNext == GeneratorTick \/ GeneratorStart \/ GeneratorYield \/ GeneratorEnd

GeneratorSpec == GeneratorInit /\ [][GeneratorNext]_vars

\* C18: two iterations of one QueryGenerator, whenever they are made, yield
\* the same queries: the same SQL strings with equal schedules.
C18_Restartable ==
    (call.op = "iterated" /\ Len(call.out.runs) = 2)
        => call.out.runs[1] = call.out.runs[2]

\* ------------------------------------------------------- RandomSqlGenerator
\* Most joins, predicates and aggregates a sampler config allows.
MaxJoins == 2
MaxPredicates == 2
MaxAggregates == 2
\* Largest seed of a generator.
MaxSeed == 12
\* num_queries of a generator.
NumQueries == 2

\* The schema: tables 1 and 2 (named in this order) of five columns each.
\* Column 2 of table 1 is its primary key; column 1 of table 1 references it,
\* and columns 1 and 2 of table 2 reference the like columns of table 1.
Tables == <<1, 2>>
Columns(table) == <<1, 2, 3, 4, 5>>

\* Column.dtype, and Column.is_primary_key or Column.is_foreign_key.
dtype(table, column) ==
    CASE column \in {1, 2} -> "INTEGER"
      [] column = 3 -> IF table = 1 THEN "FLOAT" ELSE "STRING"
      [] column = 4 -> IF table = 1 THEN "BOOLEAN" ELSE "INTEGER"
      [] OTHER -> "STRING"
is_key(table, column) == column \in {1, 2}
Relationships ==
    {<<<<1, 1>>, <<1, 2>>>>, <<<<2, 1>>, <<1, 1>>>>, <<<<2, 2>>, <<1, 2>>>>}

\* RelationshipGraph.get_possible_joins: the edges in either direction.
get_possible_joins(table, column) ==
    {e[2] : e \in {e \in Relationships : e[1] = <<table, column>>}}
        \cup {e[1] : e \in {e \in Relationships : e[2] = <<table, column>>}}

\* JoinEdge: two table columns, equal and hashed as the set of the two.
JoinEdge(first, second) == [first |-> first, second |-> second]
EdgeKey(join_edge) == {join_edge.first, join_edge.second}

\* The set comprehension of lines 193-202: of equal edges the one built first,
\* from the earlier first_column, stays.
get_possible_join_edges(table) ==
    LET built == {JoinEdge(<<table, c>>, tc) :
                     c \in 1..Len(Columns(table)),
                     tc \in UNION {{<<t, d>> : d \in 1..Len(Columns(t))} : t \in 1..Len(Tables)}}
        edges == {e \in built : e.second \in get_possible_joins(table, e.first[2])}
    IN  {e \in edges : \A f \in edges : EdgeKey(f) = EdgeKey(e) => e.first[2] <= f.first[2]}

\* possible_join_edges |= more: an edge equal to a present one is not added.
AddEdges(edges, more) ==
    edges \cup {e \in more : \A f \in edges : EdgeKey(f) # EdgeKey(e)}

\* f"{table.name}.{column.name}", as a number ordered like the string.
Stringify(table_column) == table_column[1] * 10 + table_column[2]

\* The key of sort_join_edges: the sorted pair of the two strings.
SortKey(join_edge) ==
    LET a == Stringify(join_edge.first)
        b == Stringify(join_edge.second)
    IN  IF a <= b THEN a * 100 + b ELSE b * 100 + a

RECURSIVE sort_join_edges(_)
sort_join_edges(join_edges) ==
    IF join_edges = {} THEN <<>>
    ELSE LET least == CHOOSE e \in join_edges :
                          \A f \in join_edges : SortKey(e) <= SortKey(f)
         IN  <<least>> \o sort_join_edges(join_edges \ {least})

\* Randomizer: a generator seeded with `seed` yields one fixed stream; Advance
\* steps its state and Drawn reads a number from it.
RngModulus == 64
Randomizer(seed) == seed % RngModulus
Advance(rng) == (5 * rng + 3) % RngModulus
Drawn(rng, n) == (Advance(rng) \div 4) % n

\* randint(low, high, inclusive=True)
randint(rng, low, high) == low + Drawn(rng, high - low + 1)

\* A column of an occurrence of a table in a plan; the occurrences
\* (UniqueTable) of a plan are numbered as they are created.
GenColumnReference(unique_table, column) == <<unique_table, column>>

\* Lines 143-160: the chosen edge leaves the pool and the join is added.
AddJoin(st, config, join_edge, left_ref, right_ref, tableOf, join_tables, edges) ==
    [rng |-> Advance(st.rng),
     tableOf |-> tableOf,
     join_tables |-> join_tables,
     edges |-> {e \in edges : EdgeKey(e) # EdgeKey(join_edge)},
     turns |-> st.turns,
     joins |-> Append(st.joins,
                      [join_type |-> config.join_types[Drawn(st.rng, Len(config.join_types)) + 1],
                       right |-> right_ref[1],
                       left_ref |-> left_ref,
                       right_ref |-> right_ref])]

\* Lines 99-160: one turn of the loop with a pool that is not empty.  The
\* field turns keeps, for every turn taken, the edge chosen at line 101,
\* whether both its tables were in join_tables at line 106, and the number of
\* joins of the plan when the turn began.
JoinTurn(st0, config) ==
    LET sorted == sort_join_edges(st0.edges)
        join_edge == sorted[Drawn(st0.rng, Len(sorted)) + 1]
        first_table == join_edge.first[1]
        second_table == join_edge.second[1]
        st == [st0 EXCEPT !.rng = Advance(@),
                          !.turns = Append(@, [join_edge |-> join_edge,
                                               both |-> /\ st0.join_tables[first_table] # 0
                                                        /\ st0.join_tables[second_table] # 0,
                                               joins |-> Len(st0.joins)])]
        first_column == join_edge.first[2]
        second_column == join_edge.second[2]
        created == Len(st.tableOf) + 1
    IN  IF st.join_tables[first_table] # 0 /\ st.join_tables[second_table] # 0
        THEN IF first_table = second_table
             THEN IF ~config.with_self_join
                  THEN st
                  ELSE AddJoin(st, config, join_edge,
                               GenColumnReference(st.join_tables[first_table], first_column),
                               GenColumnReference(created, second_column),
                               Append(st.tableOf, second_table), st.join_tables, st.edges)
             ELSE AddJoin(st, config, join_edge,
                          GenColumnReference(st.join_tables[first_table], first_column),
                          GenColumnReference(st.join_tables[second_table], second_column),
                          st.tableOf, st.join_tables, st.edges)
        ELSE IF st.join_tables[first_table] # 0
        THEN AddJoin(st, config, join_edge,
                     GenColumnReference(st.join_tables[first_table], first_column),
                     GenColumnReference(created, second_column),
                     Append(st.tableOf, second_table),
                     [st.join_tables EXCEPT ![second_table] = created],
                     AddEdges(st.edges, get_possible_join_edges(second_table)))
        ELSE AddJoin(st, config, join_edge,
                     GenColumnReference(st.join_tables[second_table], second_column),
                     GenColumnReference(created, first_column),
                     Append(st.tableOf, first_table),
                     [st.join_tables EXCEPT ![first_table] = created],
                     AddEdges(st.edges, get_possible_join_edges(first_table)))

\* A variant of JoinLoop that takes one turn more than num_joins.
RECURSIVE JoinLoopOneMore(_, _, _)
JoinLoopOneMore(st, turns, config) ==
    IF turns < 0 \/ st.edges = {} THEN st
    ELSE JoinLoopOneMore(JoinTurn(st, config), turns - 1, config)

\* Lines 92-160: the loop `for _ in range(num_joins)`.
RECURSIVE JoinLoop(_, _, _)
JoinLoop(st, turns, config) ==
    IF turns = 0 \/ st.edges = {} THEN st
    ELSE JoinLoop(JoinTurn(st, config), turns - 1, config)

\* JoinSampler.sample_joins with the generator in state rng.
sample_joins(rng, config) ==
    LET initial_table == Tables[Drawn(rng, Len(Tables)) + 1]
        num_joins == randint(Advance(rng), 0, config.max_num_joins)
    IN  JoinLoop([rng |-> Advance(Advance(rng)),
                  tableOf |-> <<initial_table>>,
                  join_tables |-> [t \in 1..Len(Tables) |-> IF t = initial_table THEN 1 ELSE 0],
                  edges |-> get_possible_join_edges(initial_table),
                  turns |-> <<>>,
                  joins |-> <<>>],
                 num_joins, config)

\* id(unique_table) of the occurrences 1..n of a plan: distinct addresses, in
\* any order the allocator may give.
Addresses(n) ==
    {a \in [1..n -> 1..n] : \A i, j \in 1..n : i # j => a[i] # a[j]}

\* sort_unique_tables: by (table.name, id(unique_table)).
RECURSIVE sort_unique_tables(_, _, _)
sort_unique_tables(unique_tables, tableOf, addr) ==
    IF unique_tables = {} THEN <<>>
    ELSE LET least == CHOOSE u \in unique_tables :
                          \A v \in unique_tables :
                              \/ tableOf[u] < tableOf[v]
                              \/ tableOf[u] = tableOf[v] /\ addr[u] <= addr[v]
         IN  <<least>> \o sort_unique_tables(unique_tables \ {least}, tableOf, addr)

\* The column references of all occurrences, in the order of
\* sort_unique_tables (predicate.py:75-81, aggregate.py:61-65).
RECURSIVE ColumnRefsOf(_, _)
ColumnRefsOf(sorted, tableOf) ==
    IF sorted = <<>> THEN <<>>
    ELSE [c \in 1..Len(Columns(tableOf[Head(sorted)])) |-> GenColumnReference(Head(sorted), c)]
             \o ColumnRefsOf(Tail(sorted), tableOf)

possible_column_refs(plan, addr) ==
    ColumnRefsOf(sort_unique_tables(DOMAIN plan.tableOf, plan.tableOf, addr), plan.tableOf)

\* Randomizer.flip(p), with p in eighths.
flip(rng, p) == Drawn(rng, 8) < p

\* Randomizer.choose(array, size=size): without replacement.
RECURSIVE choose(_, _, _)
choose(rng, array, size) ==
    IF size = 0 THEN [rng |-> rng, chosen |-> <<>>]
    ELSE LET i == Drawn(rng, Len(array)) + 1
             rest == choose(Advance(rng),
                            SubSeq(array, 1, i - 1) \o SubSeq(array, i + 1, Len(array)),
                            size - 1)
         IN  [rng |-> rest.rng, chosen |-> <<array[i]>> \o rest.chosen]

\* Randomizer.choose_one(array)
choose_one(rng, array) == array[Drawn(rng, Len(array)) + 1]

\* DataStats: the statistics of each column of the schema, by ColumnType.
\* `values` is the container of the kind (most_frequent_values in sorted
\* order, sampled_values, percentiles, frequent_words) and `nan` tells that
\* the mean is NaN. Of a column with only nulls the container is empty, and
\* the percentiles are taken to the nearest value, so they may repeat.
Stats(table, column) ==
    CASE column = 1 -> [column_type |-> "KEY", nan |-> FALSE, values |-> <<1, 2>>]
      [] column = 2 -> [column_type |-> "KEY", nan |-> FALSE,
                        values |-> IF table = 1 THEN <<1, 2>> ELSE <<>>]
      [] column = 3 -> IF table = 1
                       THEN [column_type |-> "NUMERICAL", nan |-> FALSE, values |-> <<1, 1, 2>>]
                       ELSE [column_type |-> "RAW_STRING", nan |-> FALSE, values |-> <<1, 2>>]
      [] column = 4 -> IF table = 1
                       THEN [column_type |-> "CATEGORICAL", nan |-> FALSE, values |-> <<1, 2>>]
                       ELSE [column_type |-> "NUMERICAL", nan |-> TRUE, values |-> <<>>]
      [] OTHER -> IF table = 1
                  THEN [column_type |-> "CATEGORICAL", nan |-> FALSE, values |-> <<>>]
                  ELSE [column_type |-> "RAW_STRING", nan |-> FALSE, values |-> <<>>]

\* make_binary_column_predicate(left, operator, right); `right` is the list
\* of the constants on the right, one constant being a list of one.
BinaryColumnPredicate(left, operator, right) ==
    [column_ref |-> left, operator |-> operator, right |-> right]

\* The result of a _sample_*_predicate: the generator after the call and the
\* predicate, if one was made.
Sampled(rng, predicates) == [rng |-> rng, predicates |-> predicates]

\* _sample_categorical_predicate
CategoricalOperators == <<"EQ", "NEQ", "IN">>
_sample_categorical_predicate(rng, column_ref, stats) ==
    LET most_frequent_values == stats.values
        operator == choose_one(rng, CategoricalOperators)
        size == randint(Advance(rng), 1, Len(most_frequent_values))
        several == choose(Advance(Advance(rng)), most_frequent_values, size)
    IN  IF Len(most_frequent_values) = 0 THEN Sampled(rng, <<>>)
        ELSE IF operator = "IN"
        THEN Sampled(several.rng, <<BinaryColumnPredicate(column_ref, operator, several.chosen)>>)
        ELSE Sampled(Advance(Advance(rng)),
                     <<BinaryColumnPredicate(column_ref, operator,
                                             <<choose_one(Advance(rng), most_frequent_values)>>)>>)

\* _sample_key_predicate
_sample_key_predicate(rng, column_ref, stats, config) ==
    IF Len(stats.values) = 0 THEN Sampled(rng, <<>>)
    ELSE IF flip(rng, config.p_drop_point_query) THEN Sampled(Advance(rng), <<>>)
    ELSE Sampled(Advance(Advance(rng)),
                 <<BinaryColumnPredicate(column_ref, "EQ",
                                         <<choose_one(Advance(rng), stats.values)>>)>>)

\* An operator list with the operators > and >= in place of the second < and
\* <=.
RangeOperators == <<"LT", "LEQ", "GT", "GEQ", "BETWEEN", "NOT_BETWEEN">>

\* The operators of _sample_numerical_predicate, as listed at lines 276-285.
NumericalOperators == <<"LT", "LEQ", "LT", "LEQ", "BETWEEN", "NOT_BETWEEN">>

\* _sample_numerical_predicate
_sample_numerical_predicate(rng, column_ref, stats) ==
    LET operator == choose_one(rng, NumericalOperators)
        two == choose(Advance(rng), stats.values, 2)
    IN  IF stats.nan THEN Sampled(rng, <<>>)
        ELSE IF operator \in {"BETWEEN", "NOT_BETWEEN"}
        THEN Sampled(two.rng, <<BinaryColumnPredicate(column_ref, operator, two.chosen)>>)
        ELSE Sampled(Advance(Advance(rng)),
                     <<BinaryColumnPredicate(column_ref, operator,
                                             <<choose_one(Advance(rng), stats.values)>>)>>)

\* _sample_raw_string_predicate: LIKE '%word%' of a frequent word.
_sample_raw_string_predicate(rng, column_ref, stats) ==
    IF Len(stats.values) = 0 THEN Sampled(rng, <<>>)
    ELSE Sampled(Advance(rng),
                 <<BinaryColumnPredicate(column_ref, "LIKE", <<choose_one(rng, stats.values)>>)>>)

\* _sample_predicate: the sampler of the statistics of the column, which the
\* data type of the column admits.
_sample_predicate(rng, column_ref, tableOf, config) ==
    LET column_stats == Stats(tableOf[column_ref[1]], column_ref[2])
    IN  CASE column_stats.column_type = "CATEGORICAL" ->
                 _sample_categorical_predicate(rng, column_ref, column_stats)
          [] column_stats.column_type = "KEY" ->
                 _sample_key_predicate(rng, column_ref, column_stats, config)
          [] column_stats.column_type = "NUMERICAL" ->
                 _sample_numerical_predicate(rng, column_ref, column_stats)
          [] column_stats.column_type = "RAW_STRING" ->
                 _sample_raw_string_predicate(rng, column_ref, column_stats)

\* Lines 109-118 of predicate.py: a column of which _sample_predicate returns
\* None is left out; a predicate that is sampled is inverted when flip(p_not).
RECURSIVE SampledPredicates(_, _, _, _)
SampledPredicates(rng, column_refs, tableOf, config) ==
    IF column_refs = <<>> THEN [rng |-> rng, predicates |-> <<>>]
    ELSE LET one == _sample_predicate(rng, Head(column_refs), tableOf, config)
         IN  IF one.predicates = <<>>
             THEN SampledPredicates(one.rng, Tail(column_refs), tableOf, config)
             ELSE LET rest == SampledPredicates(Advance(one.rng), Tail(column_refs),
                                                tableOf, config)
                  IN  [rng |-> rest.rng,
                       predicates |->
                           <<[negated |-> flip(one.rng, config.p_not),
                              column_ref |-> one.predicates[1].column_ref,
                              operator |-> one.predicates[1].operator,
                              right |-> one.predicates[1].right]>> \o rest.predicates]

\* PredicateSampler.sample_predicates(joins); no predicates stands for None.
\* The columns are chosen with positive weights, so any of them may be chosen.
sample_predicates(rng, plan, addr, config) ==
    LET refs == possible_column_refs(plan, addr)
        num_predicates == randint(rng, 0, Min(Len(refs), config.max_num_predicates))
        sampled_column_refs == choose(Advance(rng), refs, num_predicates)
        sampled_predicates == SampledPredicates(sampled_column_refs.rng,
                                                sampled_column_refs.chosen,
                                                plan.tableOf, config)
    IN  IF num_predicates = 0
        THEN [rng |-> Advance(rng), predicates |-> <<>>, sampled_column_refs |-> <<>>]
        ELSE [rng |-> sampled_predicates.rng, predicates |-> sampled_predicates.predicates,
              sampled_column_refs |-> sampled_column_refs.chosen]

\* FunctionName, in the order of its definition.
FunctionName == <<"COUNT", "MIN", "MAX", "SUM", "AVG">>

\* GenFunctionCall(func_name, agg_star, args): the fields of the class.
GenFunctionCall(func_name, agg_star, column_ref) ==
    [func_name |-> func_name, agg_star |-> agg_star, column_ref |-> column_ref]

\* The functions _sample_aggregate allows to a column (lines 85-92).
allowed_aggregate_types(table, column) ==
    IF dtype(table, column) \in {"STRING", "BOOLEAN"} \/ is_key(table, column)
    THEN <<"COUNT">>
    ELSE FunctionName

\* _sample_aggregate: the function is chosen. For COUNT, flip(p_count_distinct)
\* is passed to GenFunctionCall as agg_distinct, which is no field of the
\* class, so the call raises TypeError.
_sample_aggregate(rng, column_ref, tableOf, config) ==
    LET func_name == choose_one(rng, allowed_aggregate_types(tableOf[column_ref[1]],
                                                             column_ref[2]))
    IN  IF func_name = "COUNT"
        THEN [rng |-> Advance(Advance(rng)), targets |-> <<>>, raised |-> TRUE]
        ELSE [rng |-> Advance(rng),
              targets |-> <<GenFunctionCall(func_name, FALSE, column_ref)>>,
              raised |-> FALSE]

\* _sample_aggregate on each sampled column, in turn, up to the first that
\* raises (lines 78-80).
RECURSIVE SampledAggregates(_, _, _, _)
SampledAggregates(rng, column_refs, tableOf, config) ==
    IF column_refs = <<>> THEN [rng |-> rng, targets |-> <<>>, raised |-> FALSE]
    ELSE LET one == _sample_aggregate(rng, Head(column_refs), tableOf, config)
             rest == SampledAggregates(one.rng, Tail(column_refs), tableOf, config)
         IN  IF one.raised THEN one
             ELSE [rng |-> rest.rng, targets |-> one.targets \o rest.targets,
                   raised |-> rest.raised]

\* AggregateSampler.sample_aggregates(joins)
sample_aggregates(rng, plan, addr, config) ==
    IF flip(rng, config.p_count_star)
    THEN [rng |-> Advance(rng),
          targets |-> <<GenFunctionCall("COUNT", TRUE, GenColumnReference(0, 0))>>,
          raised |-> FALSE]
    ELSE LET refs == possible_column_refs(plan, addr)
             num_aggregates == randint(Advance(rng), 1, Min(Len(refs), config.max_num_aggregates))
             sampled_column_refs == choose(Advance(Advance(rng)), refs, num_aggregates)
         IN  SampledAggregates(sampled_column_refs.rng, sampled_column_refs.chosen,
                               plan.tableOf, config)

\* A piece of written text: the name of a table, or str() of a UniqueTable of
\* a table, followed by an underscore and a number when the number is not 0.
Text(form, table, number) == [form |-> form, table |-> table, number |-> number]
NoText == Text("none", 0, 0)

\* unique_table.name
TableName(table) == Text("name", table, 0)

\* str(unique_table): UniqueTable defines no __str__, so it is the repr that
\* attrs generates, UniqueTable(table=Table(...)), alike for the occurrences
\* of one table.
UniqueTableStr(table) == Text("UniqueTable(table=...)", table, 0)

\* generate_table_aliases: the occurrences of a table used more than once get
\* f"{unique_table}_{i+1}" in the order of sort_unique_tables; the others are
\* not in the mapping, which NoText stands for.
generate_table_aliases(plan, addr) ==
    [u \in DOMAIN plan.tableOf |->
        LET group == {v \in DOMAIN plan.tableOf : plan.tableOf[v] = plan.tableOf[u]}
            sorted == sort_unique_tables(group, plan.tableOf, addr)
        IN  IF Cardinality(group) > 1
            THEN [UniqueTableStr(plan.tableOf[u]) EXCEPT
                     !.number = CHOOSE i \in DOMAIN sorted : sorted[i] = u]
            ELSE NoText]

\* GenAliasedTable.to_sql: AliasedTable(name, alias).
AliasedTable(plan, table_aliases, u) ==
    [name |-> TableName(plan.tableOf[u]), alias |-> table_aliases[u]]

\* GenColumnReference.to_sql: ColumnReference(table_alias, column_name), the
\* alias of the occurrence or else the name of its table. COUNT(*) has no
\* argument.
ColumnReference(plan, table_aliases, column_ref) ==
    IF column_ref[1] = 0 THEN [table_alias |-> NoText, column_name |-> 0]
    ELSE [table_alias |-> IF table_aliases[column_ref[1]] # NoText
                          THEN table_aliases[column_ref[1]]
                          ELSE TableName(plan.tableOf[column_ref[1]]),
          column_name |-> column_ref[2]]

\* str(GenSelectStatement(...).to_sql()): the statement as it is written.
to_sql(plan, addr, predicates, targets) ==
    LET table_aliases == generate_table_aliases(plan, addr)
    IN  [target_list |-> [k \in DOMAIN targets |->
                             [func_name |-> targets[k].func_name,
                              agg_star |-> targets[k].agg_star,
                              arg |-> ColumnReference(plan, table_aliases, targets[k].column_ref)]],
         from_table |-> AliasedTable(plan, table_aliases, 1),
         from_joins |-> [k \in DOMAIN plan.joins |->
                            [join_type |-> plan.joins[k].join_type,
                             right |-> AliasedTable(plan, table_aliases, plan.joins[k].right),
                             on_left |-> ColumnReference(plan, table_aliases, plan.joins[k].left_ref),
                             on_right |-> ColumnReference(plan, table_aliases, plan.joins[k].right_ref)]],
         where_clause |-> [k \in DOMAIN predicates |->
                              [negated |-> predicates[k].negated,
                               column |-> ColumnReference(plan, table_aliases,
                                                          predicates[k].column_ref),
                               operator |-> predicates[k].operator,
                               right |-> predicates[k].right]]]

JoinTypeLists == {<<"INNER">>, <<"INNER", "LEFT">>}

\* The seeds of the generators: the small ones, and one whose stream chooses
\* the same edge of the relationship graph in two turns of one plan.
Seeds == 0..MaxSeed \cup {40}

\* The generators: the fixed schema with every config and seed in the bounds.
SqlGenerators ==
    [max_num_joins : 0..MaxJoins, join_types : JoinTypeLists, with_self_join : BOOLEAN,
     max_num_predicates : 0..MaxPredicates, p_drop_point_query : {2}, p_not : {2},
     max_num_aggregates : 1..MaxAggregates, p_count_star : {0, 8}, p_count_distinct : {4},
     seed : Seeds]

NoPlan ==
    [rng |-> 0, tableOf |-> <<>>, join_tables |-> <<>>, edges |-> {}, turns |-> <<>>,
     joins |-> <<>>]

SqlgenInit ==
    /\ Constructed(<<>>)
    /\ \E g \in SqlGenerators :
           call = [op |-> "RandomSqlGenerator", in |-> g,
                   out |-> [runs |-> <<>>, raised |-> <<>>, sqls |-> <<>>,
                            join_rng |-> 0, predicate_rng |-> 0,
                            aggregate_rng |-> 0, plan |-> NoPlan, addr |-> <<>>,
                            predicates |-> <<>>, sampled_column_refs |-> <<>>,
                            targets |-> <<>>]]

\* generator.py:64-81: an iteration starts with three samplers seeded alike.
SqlIterStart ==
    /\ call.op \in {"RandomSqlGenerator", "iterated"}
    /\ Len(call.out.runs) < 2
    /\ call' = [call EXCEPT !.op = "sample_joins",
                            !.out = [@ EXCEPT !.sqls = <<>>,
                                              !.join_rng = Randomizer(call.in.seed),
                                              !.predicate_rng = Randomizer(call.in.seed),
                                              !.aggregate_rng = Randomizer(call.in.seed)]]
    /\ UNCHANGED runvars

\* generator.py:84: the plan is sampled; its occurrences lie where the
\* allocator put them.
SampleJoins ==
    /\ call.op = "sample_joins"
    /\ Len(call.out.sqls) < NumQueries
    /\ LET plan == sample_joins(call.out.join_rng, call.in)
       IN  \E addr \in Addresses(Len(plan.tableOf)) :
               call' = [call EXCEPT !.op = "sample_predicates",
                                    !.out = [@ EXCEPT !.plan = plan, !.addr = addr,
                                                      !.join_rng = plan.rng,
                                                      !.predicates = <<>>,
                                                      !.sampled_column_refs = <<>>,
                                                      !.targets = <<>>]]
    /\ UNCHANGED runvars

\* generator.py:85
SamplePredicates ==
    /\ call.op = "sample_predicates"
    /\ LET sampled == sample_predicates(call.out.predicate_rng, call.out.plan,
                                        call.out.addr, call.in)
       IN  call' = [call EXCEPT !.op = "sample_aggregates",
                                !.out = [@ EXCEPT !.predicates = sampled.predicates,
                                                  !.sampled_column_refs =
                                                      sampled.sampled_column_refs,
                                                  !.predicate_rng = sampled.rng]]
    /\ UNCHANGED runvars

\* generator.py:86: the targets are sampled; what sample_aggregates raises
\* ends the iteration.
SampleAggregates ==
    /\ call.op = "sample_aggregates"
    /\ LET sampled == sample_aggregates(call.out.aggregate_rng, call.out.plan,
                                        call.out.addr, call.in)
       IN  IF sampled.raised
           THEN call' = [call EXCEPT !.op = "iterated",
                                     !.out = [@ EXCEPT !.runs = Append(@, call.out.sqls),
                                                       !.raised = Append(@, TRUE),
                                                       !.aggregate_rng = sampled.rng]]
           ELSE call' = [call EXCEPT !.op = "to_sql",
                                     !.out = [@ EXCEPT !.targets = sampled.targets,
                                                       !.aggregate_rng = sampled.rng]]
    /\ UNCHANGED runvars

\* generator.py:88-92: the statement is written and yielded.
YieldSql ==
    /\ call.op = "to_sql"
    /\ call' = [call EXCEPT
                   !.op = "sample_joins",
                   !.out = [@ EXCEPT !.sqls = Append(@, to_sql(call.out.plan, call.out.addr,
                                                               call.out.predicates,
                                                               call.out.targets))]]
    /\ UNCHANGED runvars

\* generator.py:83: num_queries statements were yielded.
SqlIterEnd ==
    /\ call.op = "sample_joins"
    /\ Len(call.out.sqls) = NumQueries
    /\ call' = [call EXCEPT !.op = "iterated",
                            !.out = [@ EXCEPT !.runs = Append(@, call.out.sqls),
                                              !.raised = Append(@, FALSE)]]
    /\ UNCHANGED runvars

SqlgenNext ==
    \/ SqlIterStart
    \/ SampleJoins
    \/ SamplePredicates
    \/ SampleAggregates
    \/ YieldSql
    \/ SqlIterEnd

SqlgenSpec == SqlgenInit /\ [][SqlgenNext]_vars

\* C19: two iterations of one RandomSqlGenerator yield the same SQL strings in
\* the same order, self-joins and their aliases included.
C19_Deterministic ==
    (call.op = "iterated" /\ Len(call.out.runs) = 2)
        => call.out.runs[1] = call.out.runs[2]

\* C20: every statement that is yielded has at most max_num_joins joins, all
\* of types of config.join_types, at most max_num_predicates predicates and
\* between 1 and max_num_aggregates targets; without joins allowed its
\* from-clause is one table and without predicates allowed it has no
\* where-clause.
C20_PlanBounds ==
    call.op \in {"sample_joins", "sample_predicates", "sample_aggregates", "to_sql", "iterated"} =>
        \A k \in DOMAIN call.out.sqls :
            LET sql == call.out.sqls[k]
            IN  /\ Len(sql.from_joins) <= call.in.max_num_joins
                /\ \A j \in DOMAIN sql.from_joins :
                      \E t \in DOMAIN call.in.join_types :
                          call.in.join_types[t] = sql.from_joins[j].join_type
                /\ Len(sql.where_clause) <= call.in.max_num_predicates
                /\ 1 <= Len(sql.target_list)
                /\ Len(sql.target_list) <= call.in.max_num_aggregates
                /\ call.in.max_num_joins = 0 => sql.from_joins = <<>>
                /\ call.in.max_num_predicates = 0 => sql.where_clause = <<>>

\* C20 witness: a statement yielded with as many joins, more than one, as
\* many predicates, at least one, and as many targets as its config allows.
C20_AtTheBounds ==
    /\ call.op = "sample_joins"
    /\ \E k \in DOMAIN call.out.sqls :
          LET sql == call.out.sqls[k]
          IN  /\ Len(sql.from_joins) = call.in.max_num_joins
              /\ Len(sql.where_clause) = call.in.max_num_predicates
              /\ Len(sql.target_list) = call.in.max_num_aggregates
              /\ Len(sql.from_joins) > 1
              /\ sql.where_clause # <<>>

\* The where-clause of the statement being made.
WhereClauseSampled == call.op \in {"sample_aggregates", "to_sql"}

AggregatesSampled ==
    \/ call.op = "to_sql"
    \/ call.op = "iterated" /\ call.out.raised[Len(call.out.raised)]

\* C22: sample_aggregates returns a target list that is either COUNT(*)
\* alone, always with p_count_star = 1 and never with p_count_star = 0, or
\* aggregates over pairwise distinct columns of the plan: COUNT on a column
\* that is STRING, BOOLEAN or a key, one of COUNT, MIN, MAX, SUM, AVG on
\* another column; a target list has no flag but that of COUNT(*).
C22_LegalAggregates ==
    AggregatesSampled =>
        LET targets == call.out.targets
            tableOf == call.out.plan.tableOf
            count_star == /\ Len(targets) = 1
                          /\ targets[1].func_name = "COUNT"
                          /\ targets[1].agg_star
            on_columns ==
                /\ Len(targets) >= 1
                /\ \A k \in DOMAIN targets :
                      LET target == targets[k]
                          unique_table == target.column_ref[1]
                          column == target.column_ref[2]
                      IN  /\ ~target.agg_star
                          /\ unique_table \in DOMAIN tableOf
                          /\ column \in DOMAIN Columns(tableOf[unique_table])
                          /\ target.func_name \in {"COUNT", "MIN", "MAX", "SUM", "AVG"}
                          /\ (\/ dtype(tableOf[unique_table], column) \in {"STRING", "BOOLEAN"}
                              \/ is_key(tableOf[unique_table], column))
                                 => target.func_name = "COUNT"
                /\ \A k, l \in DOMAIN targets :
                      k # l => targets[k].column_ref # targets[l].column_ref
        IN  /\ call.op = "to_sql"
            /\ count_star \/ on_columns
            /\ call.in.p_count_star = 8 => count_star
            /\ call.in.p_count_star = 0 => on_columns

\* A statement was just yielded: the plan is the one it was written from.
Yielded == call.op = "sample_joins" /\ call.out.sqls # <<>>

\* The AliasedTable leaves of a from-clause, from left to right.
Leaves(sql) == <<sql.from_table>> \o [k \in DOMAIN sql.from_joins |-> sql.from_joins[k].right]

\* What a column reference names a leaf by: its alias, or without one its name.
Qualifier(leaf) == IF leaf.alias # NoText THEN leaf.alias ELSE leaf.name

\* The column references of a statement: of its targets, join predicates and
\* where-clause.
References(sql) ==
    {sql.target_list[k].arg : k \in {k \in DOMAIN sql.target_list : ~sql.target_list[k].agg_star}}
        \cup {sql.from_joins[k].on_left : k \in DOMAIN sql.from_joins}
        \cup {sql.from_joins[k].on_right : k \in DOMAIN sql.from_joins}
        \cup {sql.where_clause[k].column : k \in DOMAIN sql.where_clause}

\* C23: in a yielded statement the only occurrence of a table has no alias,
\* the k > 1 occurrences of a table have the k aliases <name>_1 ... <name>_k,
\* one each, and every column reference names exactly one leaf of the
\* from-clause.
C23_Aliases ==
    Yielded =>
        LET sql == call.out.sqls[Len(call.out.sqls)]
            tableOf == call.out.plan.tableOf
            table_aliases == generate_table_aliases(call.out.plan, call.out.addr)
            group(u) == {v \in DOMAIN tableOf : tableOf[v] = tableOf[u]}
        IN  /\ \A u \in DOMAIN tableOf :
                  IF Cardinality(group(u)) = 1
                  THEN table_aliases[u] = NoText
                  ELSE /\ \E i \in 1..Cardinality(group(u)) :
                             table_aliases[u] = [TableName(tableOf[u]) EXCEPT !.number = i]
                       /\ \A v \in group(u) \ {u} : table_aliases[v] # table_aliases[u]
            /\ \A reference \in References(sql) :
                  Cardinality({i \in DOMAIN Leaves(sql) :
                                  Qualifier(Leaves(sql)[i]) = reference.table_alias}) = 1

\* ------------------------------------------------------------ Sampler configs
\* The configs that are tried: probabilities in eighths, from below 0 to above
\* 1; join types with weights in eighths, or with None for them.
Probabilities == -1..9
JoinConfigs ==
    [kind : {"JoinSamplerConfig"},
     join_types : {<<>>, <<"INNER">>, <<"INNER", "LEFT">>},
     weights_given : BOOLEAN,
     join_types_weights : {<<>>, <<8>>, <<4>>, <<4, 4>>, <<2, 6>>, <<4, 2>>}]
PredicateConfigs ==
    [kind : {"PredicateSamplerConfig"},
     p_drop_point_query : Probabilities, p_not : Probabilities]
AggregateConfigs ==
    [kind : {"AggregateSamplerConfig"},
     p_count_star : Probabilities, p_count_distinct : Probabilities]

RECURSIVE Sum(_)
Sum(weights) == IF weights = <<>> THEN 0 ELSE Head(weights) + Sum(Tail(weights))

\* __attrs_post_init__ of the three configs: the assertions hold.
JoinConfigAsserts(config) ==
    /\ ~config.weights_given \/ Len(config.join_types_weights) = Len(config.join_types)
    /\ ~config.weights_given \/ Sum(config.join_types_weights) = 8
PredicateConfigAsserts(config) ==
    /\ 0 <= config.p_drop_point_query /\ config.p_drop_point_query <= 8
    /\ 0 <= config.p_not /\ config.p_not <= 8
AggregateConfigAsserts(config) == TRUE

\* Randomizer.flip raises ValueError for a p outside [0, 1].
FlipRaises(p) == ~(0 <= p /\ p <= 8)

\* Randomizer.choose_one(array, weights=weights) raises ValueError.
ChooseOneRaises(array, weights_given, weights) ==
    \/ Len(array) = 0
    \/ weights_given /\ (Sum(weights) # 8 \/ Len(weights) # Len(array))

\* The plan of one table, which sample_joins returns without a join.
OneTablePlan ==
    [rng |-> 0, tableOf |-> <<1>>, join_tables |-> [t \in 1..Len(Tables) |-> IF t = 1 THEN 1 ELSE 0],
     edges |-> {}, turns |-> <<>>, joins |-> <<>>]

\* How sample_joins ends when it adds a join: the join type is chosen with
\* choose_one(join_types, weights=join_types_weights).
JoinSampling(config) ==
    IF ChooseOneRaises(config.join_types, config.weights_given, config.join_types_weights)
    THEN "ValueError"
    ELSE "returned"

\* How sample_predicates ends: the flips of _sample_key_predicate and of
\* line 113.
PredicateSampling(config) ==
    IF FlipRaises(config.p_drop_point_query) \/ FlipRaises(config.p_not)
    THEN "ValueError"
    ELSE "returned"

\* How sample_aggregates ends on the plan of one table, with the generator in
\* state rng: flip(p_count_star) comes first, and flip(p_count_distinct) is
\* evaluated for a COUNT before GenFunctionCall is called.
AggregateSampling(rng, config) ==
    LET sampled == sample_aggregates(rng, OneTablePlan, <<1>>,
                                     [max_num_aggregates |-> 1,
                                      p_count_star |-> config.p_count_star,
                                      p_count_distinct |-> config.p_count_distinct])
    IN  IF FlipRaises(config.p_count_star) THEN "ValueError"
        ELSE IF ~sampled.raised THEN "returned"
        ELSE IF FlipRaises(config.p_count_distinct) THEN "ValueError"
        ELSE "TypeError"

ConfigInit ==
    /\ Constructed(<<>>)
    /\ \E config \in JoinConfigs \cup PredicateConfigs \cup AggregateConfigs :
           call = [op |-> "config", in |-> config, out |-> "none"]

\* JoinSamplerConfig(...): constructed, or AssertionError.
ConstructJoinConfig ==
    /\ call.op = "config"
    /\ call.in.kind = "JoinSamplerConfig"
    /\ call' = [call EXCEPT !.op = IF JoinConfigAsserts(call.in)
                                   THEN "constructed" ELSE "AssertionError"]
    /\ UNCHANGED runvars

\* PredicateSamplerConfig(...)
ConstructPredicateConfig ==
    /\ call.op = "config"
    /\ call.in.kind = "PredicateSamplerConfig"
    /\ call' = [call EXCEPT !.op = IF PredicateConfigAsserts(call.in)
                                   THEN "constructed" ELSE "AssertionError"]
    /\ UNCHANGED runvars

\* AggregateSamplerConfig(...)
ConstructAggregateConfig ==
    /\ call.op = "config"
    /\ call.in.kind = "AggregateSamplerConfig"
    /\ call' = [call EXCEPT !.op = IF AggregateConfigAsserts(call.in)
                                   THEN "constructed" ELSE "AssertionError"]
    /\ UNCHANGED runvars

\* JoinSampler(schema, config).sample_joins() that adds a join.
SampleWithJoinConfig ==
    /\ call.op = "constructed"
    /\ call.in.kind = "JoinSamplerConfig"
    /\ call' = [call EXCEPT !.op = "sampled", !.out = JoinSampling(call.in)]
    /\ UNCHANGED runvars

\* PredicateSampler(schema, stats, config).sample_predicates(joins)
SampleWithPredicateConfig ==
    /\ call.op = "constructed"
    /\ call.in.kind = "PredicateSamplerConfig"
    /\ call' = [call EXCEPT !.op = "sampled", !.out = PredicateSampling(call.in)]
    /\ UNCHANGED runvars

\* AggregateSampler(schema, config).sample_aggregates(joins), the sampler not
\* seeded.
SampleWithAggregateConfig ==
    /\ call.op = "constructed"
    /\ call.in.kind = "AggregateSamplerConfig"
    /\ \E rng \in 0..(RngModulus - 1) :
           call' = [call EXCEPT !.op = "sampled", !.out = AggregateSampling(rng, call.in)]
    /\ UNCHANGED runvars

ConfigNext ==
    \/ ConstructJoinConfig
    \/ ConstructPredicateConfig
    \/ ConstructAggregateConfig
    \/ SampleWithJoinConfig
    \/ SampleWithPredicateConfig
    \/ SampleWithAggregateConfig

ConfigSpec == ConfigInit /\ [][ConfigNext]_vars

\* C24: a config with a probability outside [0, 1], with weights whose length
\* is not that of join_types or that do not sum to 1, or with no join types is
\* not constructed, and sampling with a config that was constructed does not
\* raise ValueError.
C24_RejectedAtConstruction ==
    /\ call.op \in {"constructed", "sampled"} =>
          CASE call.in.kind = "JoinSamplerConfig" ->
                   /\ call.in.join_types # <<>>
                   /\ call.in.weights_given =>
                         /\ Len(call.in.join_types_weights) = Len(call.in.join_types)
                         /\ Sum(call.in.join_types_weights) = 8
            [] call.in.kind = "PredicateSamplerConfig" ->
                   /\ call.in.p_drop_point_query \in 0..8
                   /\ call.in.p_not \in 0..8
            [] call.in.kind = "AggregateSamplerConfig" ->
                   /\ call.in.p_count_star \in 0..8
                   /\ call.in.p_count_distinct \in 0..8
    /\ call.op = "sampled" => call.out # "ValueError"

\* ---------------------------------------------------------- FileQueryReporter
\* Most calls made on one reporter.
MaxCalls == 4

\* The query reports that are delivered: of the queries of two users, with
\* result tuples or with None for them.
FileQueryReports ==
    [user : UserIds, sql : SqlStrings, execution_time : {1}, results : {"None", "tuples"}]

\* MinimumQueryReport(sql, execution_time, results).to_str(): one line of JSON
\* with these three fields.
MinimumQueryReport(query_report) ==
    [sql |-> query_report.sql, execution_time |-> query_report.execution_time,
     results |-> IF query_report.results = "None" THEN "null" ELSE query_report.results]

\* The files of the directory by suffix; a file that does not exist has no
\* lines.
FileNames == {".temp.txt", ".txt", ".error.txt"}
NoFile == [exists |-> FALSE, lines |-> <<>>]
EmptyDirectory == [name \in FileNames |-> NoFile]

\* open(path, mode="w") and a write of one line: what the file held is lost.
WriteTruncating(files, line) ==
    [files EXCEPT ![".temp.txt"] = [exists |-> TRUE, lines |-> <<line>>]]

\* _write_report: open(path, mode="a") creates the file if need be, and the
\* line is appended.
_write_report(files, line) ==
    [files EXCEPT ![".temp.txt"] = [exists |-> TRUE, lines |-> Append(@.lines, line)]]

\* _finalize_report: without a .temp.txt file nothing is done; else it is
\* renamed, and takes the place of a .txt file of the same name where rename
\* replaces; where rename does not replace it raises FileExistsError.
_finalize_report(files) ==
    IF ~files[".temp.txt"].exists THEN {files}
    ELSE {[files EXCEPT ![".txt"] = files[".temp.txt"], ![".temp.txt"] = NoFile]}
             \cup (IF files[".txt"].exists THEN {files} ELSE {})

FileInit ==
    /\ Constructed(<<>>)
    /\ call = [op |-> "FileQueryReporter", in |-> <<>>,
               out |-> [files |-> EmptyDirectory, delivered |-> <<>>]]

\* report(query_report)
FileReport ==
    /\ call.op = "FileQueryReporter"
    /\ Len(call.in) < MaxCalls
    /\ \E query_report \in FileQueryReports :
           call' = [call EXCEPT
                       !.in = Append(@, "report"),
                       !.out = [files |-> _write_report(call.out.files,
                                                        MinimumQueryReport(query_report)),
                                delivered |-> Append(call.out.delivered, query_report)]]
    /\ UNCHANGED runvars

\* done()
FileDone ==
    /\ call.op = "FileQueryReporter"
    /\ Len(call.in) < MaxCalls
    /\ \E files \in _finalize_report(call.out.files) :
           call' = [call EXCEPT !.in = Append(@, "done"), !.out = [@ EXCEPT !.files = files]]
    /\ UNCHANGED runvars

\* error(exc): the traceback is written to the .error.txt file, then the
\* report is finalized.
FileError ==
    /\ call.op = "FileQueryReporter"
    /\ Len(call.in) < MaxCalls
    /\ \E files \in _finalize_report([call.out.files EXCEPT
                                         ![".error.txt"] = [exists |-> TRUE,
                                                            lines |-> <<"traceback">>]]) :
           call' = [call EXCEPT !.in = Append(@, "error"), !.out = [@ EXCEPT !.files = files]]
    /\ UNCHANGED runvars

FileNext ==
    \/ FileReport
    \/ FileDone
    \/ FileError

FileSpec == FileInit /\ [][FileNext]_vars

\* The calls of one run so far: reports, then at most a done() at the end.
OneRun ==
    \A i \in DOMAIN call.in :
        \/ call.in[i] = "report"
        \/ call.in[i] = "done" /\ i = Len(call.in)

\* C25: in one run of a FileQueryReporter there is no file before the first
\* report; then the .temp.txt file, and no other, holds one line for each
\* report in the order of delivery; after done() the .txt file, and no other,
\* holds these lines; done() without a report leaves no file.
C25_FileLifeCycle ==
    (call.op = "FileQueryReporter" /\ OneRun) =>
        LET files == call.out.files
            lines == [i \in DOMAIN call.out.delivered |->
                         MinimumQueryReport(call.out.delivered[i])]
            done == call.in # <<>> /\ call.in[Len(call.in)] = "done"
            holder == IF done THEN ".txt" ELSE ".temp.txt"
        IN  IF call.out.delivered = <<>>
            THEN \A name \in FileNames : ~files[name].exists
            ELSE /\ files[holder].exists
                 /\ files[holder].lines = lines
                 /\ \A name \in FileNames \ {holder} : ~files[name].exists

\* C25 witness: done() after three reports, of which the first and the last
\* are alike and the second is another, left the three lines in the .txt file.
C25_ThreeLinesFinalized ==
    /\ call.op = "FileQueryReporter"
    /\ call.in = <<"report", "report", "report", "done">>
    /\ call.out.delivered[1] = call.out.delivered[3]
    /\ call.out.delivered[1] # call.out.delivered[2]
    /\ call.out.files[".txt"].exists
    /\ Len(call.out.files[".txt"].lines) = 3

\* ------------------------------------------------- run_workload, further on
\* C26: the producer and the executor of one user are never both waiting
\* for free space in the scheduled queue of the user (the producer in a put
\* of a query or of DONE, the executor in the put that re-enqueues a
\* repeating query, which nobody but the executor itself could complete).
C26_NoMutualWait ==
    \A u \in users : ~(ppc[u] = "put" /\ epc[u] = "reput")

\* C27: run_workload on a workload with no user calls reporter.done() once
\* and returns: the run is never stuck with the reporter worker waiting in
\* completed_queue.get() for a DONE that no executor sends.
C27_ZeroUsersEnd ==
    (users = {} /\ Stuck) => (rpc = "returned" /\ doneCalls = 1)

\* ------------------------------------------------------ JoinSampler, turns
\* sample_joins has returned the plan of the statement being made.
JoinsSampled == call.op = "sample_predicates"

\* The number of joins of the plan when turn k of the loop ended.
JoinsAfter(plan, k) ==
    IF k < Len(plan.turns) THEN plan.turns[k + 1].joins ELSE Len(plan.joins)

\* C28: without with_self_join a turn whose chosen edge has both its tables in
\* the plan already adds no join, be the two tables one table or two, and the
\* turn is still one of the at most max_num_joins turns of the loop.
C28_BothJoinedNeedsSelfJoin ==
    JoinsSampled =>
        LET plan == call.out.plan
        IN  /\ Len(plan.turns) <= call.in.max_num_joins
            /\ \A k \in DOMAIN plan.turns :
                   (plan.turns[k].both /\ ~call.in.with_self_join)
                       => JoinsAfter(plan, k) = plan.turns[k].joins

\* C29: every edge chosen while a plan is built, a skipped one included, has
\* left the candidate pool for good: it is not in the pool at the end and no
\* two turns chose the same edge.
C29_ChosenEdgeLeavesPool ==
    JoinsSampled =>
        LET plan == call.out.plan
        IN  \A k \in DOMAIN plan.turns :
                /\ \A e \in plan.edges : EdgeKey(e) # EdgeKey(plan.turns[k].join_edge)
                /\ \A j \in DOMAIN plan.turns :
                       j # k => EdgeKey(plan.turns[j].join_edge)
                                    # EdgeKey(plan.turns[k].join_edge)

\* C30: in the plan sample_joins returns the right child of every join is an
\* occurrence that is no leaf of the left subtree of the join, so every
\* occurrence is one leaf and there is one leaf more than there are joins.
C30_OneLeafPerUniqueTable ==
    JoinsSampled =>
        LET plan == call.out.plan
        IN  /\ Len(plan.tableOf) = Len(plan.joins) + 1
            /\ \A k \in DOMAIN plan.joins :
                   /\ plan.joins[k].right # 1
                   /\ \A j \in 1..(k - 1) : plan.joins[j].right # plan.joins[k].right
====
